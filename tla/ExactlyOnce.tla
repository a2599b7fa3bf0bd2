---------------------------- MODULE ExactlyOnce ----------------------------
(* What the outbox and the event consumer together promise a projection:    *)
(* an event committed with its aggregate enters the projection at most once, *)
(* and nothing enters it that was not committed.                             *)
EXTENDS Naturals, Sequences

VARIABLES appended,   \* how many events the event store has committed
          applied     \* the events the projection has applied, in its order

IsApplied(e) == \E k \in DOMAIN applied : applied[k] = e

Init == appended = 0 /\ applied = <<>>

Commit == appended' = appended + 1 /\ UNCHANGED applied

Deliver == \E e \in 1..appended : /\ ~IsApplied(e)
                                  /\ applied' = Append(applied, e)
                                  /\ UNCHANGED appended

Next == Commit \/ Deliver

Spec == Init /\ [][Next]_<<appended, applied>>
=============================================================================
