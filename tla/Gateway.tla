------------------------------- MODULE Gateway -------------------------------
(***************************************************************************)
(* Signing in and the workspaces together: a request for a workspace       *)
(* passes RequireAuth and acts for the user that the middleware left in    *)
(* its Locals, whatever happens to the session after that.  The workspace  *)
(* module is taken by its promise, WorkspaceRegistry, which its handlers   *)
(* implement.                                                              *)
(***************************************************************************)
EXTENDS OidcLogin

CONSTANTS Accounts,              \* bound: ids of users that own workspaces
          Names, Descs, InitRows, Lost  \* as in WorkspaceRegistry

VARIABLES table, outcome

Registry == INSTANCE WorkspaceRegistry WITH Requests <- Others, Users <- Accounts

regVars == <<table, outcome>>

ASSUME AccountsAssumption == Accounts \subseteq UserIds
ASSUME TableAssumption == InitRows \in Seq(Registry!Row)

GatewayInit == Init /\ Registry!Init

\* What the registry decides on a request of u.
Decides(r, u) == \/ Registry!Register(r, u) \/ Registry!Amend(r, u)
                 \/ Registry!Retire(r, u)   \/ Registry!NoEffect(r, u)
                 \/ Registry!Refuse(r)

\* Variant: the owner is taken from the request.
ServeClaimed(r) ==
  /\ r \in Others /\ pc[r] = "next"
  /\ \E u \in Accounts : Decides(r, u) /\ outcome'[r].by = u
  /\ Reply(r, IF outcome'[r].verdict = "accepted" THEN 200 ELSE 400, "keep")
  /\ UNCHANGED <<server, grant, client, sess, uid>>

\* c.Next(): the handler acts for GetUserID and replies.
Serve(r) ==
  /\ r \in Others /\ pc[r] = "next"
  /\ Decides(r, uid[r]) /\ outcome'[r].by = uid[r]
  /\ Reply(r, IF outcome'[r].verdict = "accepted" THEN 200 ELSE 400, "keep")
  /\ UNCHANGED <<server, grant, client, sess, uid>>

GatewayNext == \/ Next /\ UNCHANGED regVars
               \/ \E r \in Others : Serve(r)

GatewaySpec == GatewayInit /\ [][GatewayNext]_<<vars, regVars>>

GatewayFairSpec == /\ GatewaySpec
                   /\ \A r \in Requests : WF_vars(Handle(r) /\ UNCHANGED regVars)
                   /\ \A r \in Others : WF_vars(Serve(r))

-----------------------------------------------------------------------------
(* Properties. *)

\* Every verdict on a request for a workspace goes to an account that was granted
\* to the very browser that sent it, and a workspace that is new or was changed
\* belongs to an account somebody was granted, although the session may have been
\* logged out, expired or replaced between RequireAuth and the handler
\* (middleware/auth.go:36-53, workspace_controller.go:33,69).
WritesAreGranted ==
  /\ \A r \in Others : outcome[r] # Registry!Open => Granted(from[r], outcome[r].by)
  /\ \A i \in DOMAIN table :
       \/ i \in DOMAIN InitRows /\ table[i] = InitRows[i]
       \/ \E b \in Browsers : Granted(b, table[i].owner)
=============================================================================
