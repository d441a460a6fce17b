-------------------------------- MODULE TabLife --------------------------------
(***************************************************************************)
(* What the session manager promises of the ownership of tabs, whatever    *)
(* sessions, creations, popups, loans, sweeps and deletions overlap: a     *)
(* session takes a tab once, when nobody has it, and keeps it until it is  *)
(* let go for good. A user's tab can be borrowed again. What was let go    *)
(* only a session that recovers tabs takes back, and such sessions may     *)
(* lose a tab to each other, to nobody else.                               *)
(***************************************************************************)
CONSTANTS Tabs, Sessions, UserTabs, Recoverers, None

VARIABLES
  holder,   (* the session that has each tab, None for nobody               *)
  spent     (* the tabs whose one turn came, or never will                  *)

Init == holder = [t \in Tabs |-> None] /\ spent = {}

(* A session takes a tab that nobody has had, or a user's tab nobody has. *)
Take(t, s) ==
  /\ holder[t] = None /\ t \notin spent
  /\ holder' = [holder EXCEPT ![t] = s]
  /\ spent' = spent \cup ({t} \ UserTabs)

(* Tabs are let go, or turned away before anybody had them. *)
LetGo(T) ==
  /\ holder' = [t \in Tabs |-> IF t \in T THEN None ELSE holder[t]]
  /\ spent' = spent \cup (T \ UserTabs)

(* A client names a tab that was let go. *)
Recover(t, s) ==
  /\ t \in spent
  /\ holder[t] \in Recoverers \cup {None}
  /\ holder' = [holder EXCEPT ![t] = s]
  /\ UNCHANGED spent

Next ==
  \/ \E t \in Tabs : \/ \E s \in Sessions : Take(t, s)
                     \/ \E s \in Recoverers : Recover(t, s)
  \/ \E T \in SUBSET Tabs : LetGo(T)

Spec == Init /\ [][Next]_<<holder, spent>>

================================================================================
