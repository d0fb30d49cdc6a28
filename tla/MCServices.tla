----------------------------- MODULE MCServices -----------------------------
(***************************************************************************)
(* The parts of the server and of the editor that share no state, checked  *)
(* side by side: the part a behaviour starts in is the one that moves.     *)
(***************************************************************************)
EXTENDS RateLimiter, BlobStore, Compiler, Settings, SuggestMode, Events, TLC

CONSTANT Running   \* the parts of the run
VARIABLE part

Init ==
  /\ part \in Running
  /\ LimiterInit /\ BlobInit /\ CompilerInit /\ SettingsInit /\ SuggestModeInit /\ EventsInit

Next ==
  /\ UNCHANGED part
  /\ \/ /\ part = "limiter" /\ LimiterNext
        /\ UNCHANGED <<blobVars, compilerVars, settingsVars, suggestModeVars, eventsVars>>
     \/ /\ part = "blobs" /\ BlobNext
        /\ UNCHANGED <<limiterVars, compilerVars, settingsVars, suggestModeVars, eventsVars>>
     \/ /\ part = "compiler" /\ CompilerNext
        /\ UNCHANGED <<limiterVars, blobVars, settingsVars, suggestModeVars, eventsVars>>
     \/ /\ part = "settings" /\ SettingsNext
        /\ UNCHANGED <<limiterVars, blobVars, compilerVars, suggestModeVars, eventsVars>>
     \/ /\ part = "suggest mode" /\ SuggestModeNext
        /\ UNCHANGED <<limiterVars, blobVars, compilerVars, settingsVars, eventsVars>>
     \/ /\ part = "events" /\ EventsNext
        /\ UNCHANGED <<limiterVars, blobVars, compilerVars, settingsVars, suggestModeVars>>

vars == <<part, limiterVars, blobVars, compilerVars, settingsVars, suggestModeVars, eventsVars>>

Spec == Init /\ [][Next]_vars /\ Fairness

\* Two forms that disagree about the client, of which one saves another setting first.
MCForms == {"oidc_issuer" :> "a" @@ "oidc_client_id" :> "a",
            "smtp_host" :> "a" @@ "oidc_client_id" :> ""}
MCEnvs  == {[smtp_host |-> "", oidc_issuer |-> "", oidc_client_id |-> "a"]}
=============================================================================
