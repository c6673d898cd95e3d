---------------------------- MODULE GrantLedger ----------------------------
(***************************************************************************)
(* What the ledger of a granting component promises, apart from how it is  *)
(* kept: a key is served on the component's own account only while it is   *)
(* open, serving it closes it, and it opens again only because an operator *)
(* releases it or because the record of the service was lost.  An operator *)
(* may also serve a key whatever its state.                                *)
(*                                                                         *)
(* The welcome packages and their companion messages implement it (module  *)
(* WelcomePackages, "a granted OR failed row means done").                 *)
(***************************************************************************)
EXTENDS Naturals

CONSTANT Keys           \* what is served once each

VARIABLES open,         \* may the component serve the key of its own accord
          served,       \* how often the key was served
          forced,       \* of these, how often on an operator's demand
          released,     \* how often an operator opened the key again
          lost          \* how often the record of a service was lost

vars == <<open, served, forced, released, lost>>

Init == /\ open = [k \in Keys |-> TRUE]
        /\ served = [k \in Keys |-> 0]
        /\ forced = [k \in Keys |-> 0]
        /\ released = [k \in Keys |-> 0]
        /\ lost = [k \in Keys |-> 0]

\* The attempt may serve nothing; it closes the key all the same.
Serve(k) ==
    /\ open[k]
    /\ \E n \in {0, 1} : served' = [served EXCEPT ![k] = @ + n]
    /\ open' = [open EXCEPT ![k] = FALSE]
    /\ UNCHANGED <<forced, released, lost>>

ServeAnyway(k) ==
    /\ \E n \in {0, 1} : /\ served' = [served EXCEPT ![k] = @ + n]
                         /\ forced' = [forced EXCEPT ![k] = @ + n]
    /\ UNCHANGED <<open, released, lost>>

\* The record of a forced service closes the key.
Close(k) ==
    /\ open' = [open EXCEPT ![k] = FALSE]
    /\ UNCHANGED <<served, forced, released, lost>>

Release(k) ==
    /\ ~open[k]
    /\ open' = [open EXCEPT ![k] = TRUE]
    /\ released' = [released EXCEPT ![k] = @ + 1]
    /\ UNCHANGED <<served, forced, lost>>

Lose(k) ==
    /\ ~open[k]
    /\ open' = [open EXCEPT ![k] = TRUE]
    /\ lost' = [lost EXCEPT ![k] = @ + 1]
    /\ UNCHANGED <<served, forced, released>>

Next == \E k \in Keys : \/ Serve(k)
                        \/ ServeAnyway(k)
                        \/ Close(k)
                        \/ Release(k)
                        \/ Lose(k)

Spec == Init /\ [][Next]_vars

\* No key is served more often than once, plus what operators asked for and
\* what was lost.
ServedOnce ==
    \A k \in Keys : /\ served[k] <= 1 + forced[k] + released[k] + lost[k]
                    /\ open[k] => served[k] <= forced[k] + released[k] + lost[k]
=============================================================================
