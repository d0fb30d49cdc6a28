------------------------------- MODULE Settings -------------------------------
(***************************************************************************)
(* Settings an administrator changes at run time: rows in the database, a  *)
(* cache of them in memory (internal/settings), environment values behind  *)
(* both, and the single sign-on provider that is built from them.          *)
(***************************************************************************)
EXTENDS Naturals, Functions, TLC

CONSTANTS
  Savers,      \* administrators that save at the same time
  Forms,       \* what they save: functions from keys to values
  Envs,        \* environments to start in
  Unset, Off,
  MaxRestarts  \* bound: restarts of the process

Keys   == {"smtp_host", "oidc_issuer", "oidc_client_id"}
\* handleAdminPutSettings goes through the keys in this order.
Order  == [smtp_host |-> 1, oidc_issuer |-> 2, oidc_client_id |-> 3]

ASSUME SettingsConstants ==
  /\ \A form \in Forms : DOMAIN form \subseteq Keys
  /\ \A env \in Envs : DOMAIN env = Keys
  /\ MaxRestarts \in Nat

VARIABLES
  env,
  rows, cache,   \* Unset where there is no row
  provider,      \* the issuer and client it was built from, or Off
  put,           \* what each writer is about to do (history: and that no other has changed
                 \* the fields of the provider since it began)
  restarts,
  raced,         \* history: keys two writers have set at the same time
  stale          \* history: the provider was not rebuilt since, or by a request whose fields
                 \* another had changed

settingsVars == <<env, rows, cache, provider, put, restarts, raced, stale>>

NoRequest == [step |-> "idle", form |-> [k \in {} |-> 0], before |-> Off, issuer |-> "",
              alone |-> TRUE]

\* str: the row as cached, the environment behind it.
str(k) == IF cache[k] # Unset THEN cache[k] ELSE env[k]

OIDCFields  == <<str("oidc_issuer"), str("oidc_client_id")>>
OIDCEnabled == str("oidc_issuer") # "" /\ str("oidc_client_id") # ""
Built       == IF OIDCEnabled THEN OIDCFields ELSE Off

\* A start on an empty database.
SettingsInit ==
  /\ env \in Envs
  /\ rows = [k \in Keys |-> Unset] /\ cache = rows
  /\ provider \in {Built, Off} /\ stale = (provider # Built)
  /\ put = [w \in Savers |-> NoRequest]
  /\ restarts = 0 /\ raced = {}

Busy == {w \in Savers : put[w].step # "idle"}

handleAdminPutSettings(w, form) ==
  /\ put[w].step = "idle"
  /\ put' = [put EXCEPT ![w] = [step |-> "row", form |-> form, before |-> OIDCFields,
                                issuer |-> "", alone |-> TRUE]]
  /\ UNCHANGED <<env, rows, cache, provider, restarts, raced, stale>>

Next_(w)   == CHOOSE k \in DOMAIN put[w].form : \A j \in DOMAIN put[w].form : Order[k] <= Order[j]
Setting(w) == {k \in DOMAIN put[w].form : put[w].step = "cache" /\ k = Next_(w)}

\* SetSetting.  An error ends the request, with what was saved and without a new provider.
SetRow(w) ==
  /\ put[w].step = "row" /\ DOMAIN put[w].form # {}
  /\ LET k == Next_(w) IN
     \/ /\ rows' = [rows EXCEPT ![k] = put[w].form[k]]
        /\ put' = [put EXCEPT ![w].step = "cache"]
        /\ raced' = IF \E v \in Savers : k \in Setting(v) THEN raced \cup {k} ELSE raced
        /\ UNCHANGED stale
     \/ /\ put' = [put EXCEPT ![w] = NoRequest]
        /\ stale' = (stale \/ put[w].before # OIDCFields \/ ~put[w].alone)
        /\ UNCHANGED <<rows, raced>>
  /\ UNCHANGED <<env, cache, provider, restarts>>

\* Mutant: the cache is left for the next Reload.
CacheLater(w) ==
  /\ put[w].step = "cache"
  /\ put' = [put EXCEPT ![w].step = "row", ![w].form = Restrict(@, DOMAIN @ \ {Next_(w)})]
  /\ UNCHANGED <<env, rows, cache, provider, restarts, raced, stale>>

SetCache(w) ==
  /\ put[w].step = "cache"
  /\ cache' = [cache EXCEPT ![Next_(w)] = put[w].form[Next_(w)]]
  /\ UNCHANGED <<env, rows, provider, restarts, raced, stale>>
  /\ put' = [v \in Savers |->
               IF v = w
               THEN [put[v] EXCEPT !.step = "row", !.form = Restrict(@, DOMAIN @ \ {Next_(w)})]
               ELSE [put[v] EXCEPT !.alone = @ /\ (put[v].step = "idle" \/ OIDCFields' = OIDCFields)]]

\* oidcAfter against oidcBefore, and SetupOIDC: no provider when OIDC is not configured;
\* NewProvider asks the issuer and may fail, and then the old provider stays.
SetupOIDC(w) ==
  /\ put[w].step = "row" /\ DOMAIN put[w].form = {}
  /\ IF put[w].before = OIDCFields
     THEN /\ stale' = (stale \/ ~put[w].alone) /\ UNCHANGED provider
          /\ put' = [put EXCEPT ![w] = NoRequest]
     ELSE IF ~OIDCEnabled
     THEN /\ provider' = Off /\ stale' = ~put[w].alone
          /\ put' = [put EXCEPT ![w] = NoRequest]
     ELSE \/ /\ put' = [put EXCEPT ![w].step = "install", ![w].issuer = str("oidc_issuer")]
             /\ UNCHANGED <<provider, stale>>
          \/ /\ put' = [put EXCEPT ![w] = NoRequest]
             /\ stale' = TRUE /\ UNCHANGED provider
  /\ UNCHANGED <<env, rows, cache, restarts, raced>>

\* The client is read again after the answer of the issuer.
Install(w) ==
  /\ put[w].step = "install"
  /\ provider' = <<put[w].issuer, str("oidc_client_id")>>
  /\ put' = [put EXCEPT ![w] = NoRequest]
  /\ stale' = ~put[w].alone
  /\ UNCHANGED <<env, rows, cache, restarts, raced>>

\* New (Reload), SetupOIDC, and a log entry where that fails.
Restart ==
  /\ restarts < MaxRestarts /\ restarts' = restarts + 1
  /\ UNCHANGED <<env, rows>> /\ cache' = rows
  /\ provider' \in {Built', Off} /\ stale' = (provider' # Built')
  /\ put' = [w \in Savers |-> NoRequest] /\ raced' = {}

SettingsNext ==
  \/ \E w \in Savers :
       \/ \E form \in Forms : handleAdminPutSettings(w, form)
       \/ SetRow(w) \/ SetCache(w) \/ SetupOIDC(w) \/ Install(w)
  \/ Restart

SettingsSpec == SettingsInit /\ [][SettingsNext]_settingsVars

-----------------------------------------------------------------------------

\* settings.go:85 "upserts one setting ... and refreshes cache", oidc.go:35: with no request
\* under way the cache holds the rows, but for keys two writers have set at the same time,
\* and sign-on works as configured, unless a rebuilding has failed, was skipped by an error
\* in the middle of a form, or another request has changed its fields meanwhile.
SettingsInEffect ==
  Busy = {} => /\ \A k \in Keys \ raced : cache[k] = rows[k]
               /\ stale \/ provider = Built
=============================================================================
