------------------------------ MODULE CommandLife ------------------------------
(***************************************************************************)
(* What the target command queue promises the caller of enqueue(), however *)
(* deadlines, aborts, cancels and the drains of dropped entries interleave:*)
(* a command is refused before its fn is invoked, or its fn is invoked     *)
(* once and the caller hears how it ended.                                 *)
(***************************************************************************)
CONSTANTS Commands, Refusals

VARIABLES
  promise,   (* what each caller's promise says                             *)
  invoked    (* the commands whose fn was invoked                           *)

(* What a promise may say next. *)
After(p) ==
  CASE p = "new"     -> Refusals \cup {"queued", "running"}
    [] p = "queued"  -> Refusals \cup {"running"}
    [] p = "running" -> {"resolved", "failed"}
    [] OTHER         -> {}

Starts(c) == promise[c] # "running" /\ promise'[c] = "running"

Init == promise = [c \in Commands |-> "new"] /\ invoked = {}

(* One turn of the event loop: it may settle several promises, and invokes   *)
(* at most one fn, of a command that was never invoked before.               *)
Turn ==
  /\ \A c \in Commands : promise'[c] = promise[c] \/ promise'[c] \in After(promise[c])
  /\ \A c, d \in Commands : Starts(c) /\ Starts(d) => c = d
  /\ invoked' = invoked \cup {c \in Commands : Starts(c)}

Spec == Init /\ [][Turn]_<<promise, invoked>>

================================================================================
