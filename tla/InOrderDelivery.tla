-------------------------- MODULE InOrderDelivery --------------------------
(***************************************************************************)
(* What a viewer is promised of an RTP stream: packets come out in the     *)
(* order in which the source numbered them, each at most once.  A packet   *)
(* is its index in the source's unbounded numbering, so a wrap of the      *)
(* 16-bit RTP sequence number is not a step back.                          *)
(***************************************************************************)
EXTENDS Integers, Sequences

VARIABLES last,   \* the newest packet handed out so far, -1 before the first
          out     \* the packets the latest call handed out, oldest first

Rising(s, floor) ==
    /\ \A i \in 1..Len(s) : s[i] > floor
    /\ \A i \in 1..(Len(s) - 1) : s[i] < s[i + 1]

Newest(s, floor) == IF s = <<>> THEN floor ELSE s[Len(s)]

Init == last = -1 /\ out = <<>>

HandOut == Rising(out', last) /\ last' = Newest(out', last)

Spec == Init /\ [][HandOut]_<<last, out>>
=============================================================================
