----------------------------- MODULE MCVaultGate -----------------------------
(* Values for the constants of VaultGate.                                  *)
EXTENDS VaultGate, TLC

CONSTANTS First, Lone   \* a credential, a request

(* One token in two ticks for anybody; a principal with an override may    *)
(* hold more of them.                                                      *)
SmallLimits == "search" :> [burst |-> 1, refill |-> 1]
                 @@ "get_note" :> [burst |-> 1, refill |-> 2]
Overrides(p) == p :> ("search" :> [burst |-> 2, refill |-> 1])
AgentOverrides == Overrides("agent")

(* Searches and readings race each other over two credentials of one       *)
(* principal, one for each transport; or the searches race the commands of *)
(* the operators.                                                          *)
Live(r) == req[r] # Idle
Quiet ==
    /\ \A o \in Operators : command[o] = Idle
    /\ \A c \in DOMAIN creds :
          creds[c].scopes = {Read} /\ creds[c].revoked = Never /\ creds[c].expires = Never
    /\ \A r \in Reqs : Live(r) =>
          /\ req[r].via = "http" <=> req[r].cred = First
          /\ req[r].kind = "search" <=> r = Lone
Alone ==
    /\ DOMAIN creds \subseteq {First}
    /\ \A r \in Reqs : Live(r) => r = Lone /\ req[r].kind = "search"
VARIABLE scope

InScope(s) == CASE s = "quota" -> Quiet [] s = "operators" -> Alone

ScopedInit == Init /\ scope \in {"quota", "operators"}
ScopedNext == Next /\ UNCHANGED scope /\ InScope(scope)'
ScopedSpec == ScopedInit /\ [][ScopedNext]_<<vars, scope>>

=============================================================================
