------------------------------ MODULE WindowQuota ------------------------------
(***************************************************************************)
(* What the rate limiter promises, with no buckets and no refills: of any  *)
(* window of time, an identity may use what a full bucket holds and what   *)
(* the window's length is worth.  A call is granted when every window that *)
(* is open has room for it; else it is refused, and told what is missing   *)
(* in the window with the least room.                                      *)
(***************************************************************************)
EXTENDS Integers

CONSTANTS
  Identities,
  Capacity,         \* units any window has
  RefillPerSecond,  \* units a window has for each tick it is open
  Cost,             \* units a call uses
  MaxTime           \* bound: the last instant

VARIABLES
  time,   \* the instant at which calls are judged
  spent,  \* spent[i][s] = units i has used in the window that opened at s
  hints   \* what the refused, since they were last granted a call, were told

vars == <<time, spent, hints>>

Time == 0 .. MaxTime

Init ==
  /\ time = 0
  /\ spent = [i \in Identities |-> [s \in Time |-> 0]]
  /\ hints = {}

\* What the window that opened at s leaves to identity i.
Room(i, s) == Capacity + RefillPerSecond * (time - s) - spent[i][s]

Grant(i) ==
  /\ \A s \in 0 .. time : Room(i, s) >= Cost
  /\ spent' = [spent EXCEPT ![i] = [s \in Time |-> IF s <= time THEN @[s] + Cost ELSE @[s]]]
  /\ hints' = {h \in hints : h.identity # i}

\* Only the first refusal since a grant gives a hint to hold on to.
Refuse(i) ==
  \E s \in 0 .. time :
    /\ \A r \in 0 .. time : Room(i, r) >= Room(i, s)
    /\ Room(i, s) < Cost
    /\ hints' = IF \E h \in hints : h.identity = i
                THEN hints
                ELSE hints \cup {[identity |-> i, at |-> time, missing |-> Cost - Room(i, s)]}
    /\ UNCHANGED spent

\* Time goes on, or stands still, while a call is judged or none is.
Next ==
  /\ time' \in time .. MaxTime
  /\ \/ \E i \in Identities : Grant(i) \/ Refuse(i)
     \/ UNCHANGED <<spent, hints>>

Spec == Init /\ [][Next]_vars

=============================================================================
