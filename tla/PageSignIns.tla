---------------------------- MODULE PageSignIns ----------------------------
(* One page of the client, with the history variable of SignIns. *)
EXTENDS AuthPage, SignIns

PageSignInSpec ==
    PageInit /\ NobodySignedIn /\ [][PageNext /\ Descend]_<<allVars, signIn>>
=============================================================================
