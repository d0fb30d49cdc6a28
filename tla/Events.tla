-------------------------------- MODULE Events --------------------------------
(***************************************************************************)
(* The event hub of a project (internal/api/sse.go) and what an editor     *)
(* does with its events (EditorPage.tsx): handlers write and then publish  *)
(* what kind of list has changed, a tab fetches that list again.  A tab    *)
(* loads its lists while its event stream is being opened, and loads       *)
(* nothing when the stream is opened once more.                            *)
(***************************************************************************)
EXTENDS Naturals, Sequences, SequencesExt

CONSTANTS
  Tabs,
  Topics,      \* the lists a tab shows: files, suggestions, comments, versions
  Handlers,    \* requests that change them
  Buffer,      \* events a channel holds, 64
  MaxVersion   \* bound: changes of a list

ASSUME EventsConstants == Buffer \in Nat \ {0} /\ MaxVersion \in Nat

VARIABLES
  version,       \* of each list, as in the database
  unpublished,   \* the lists a handler has changed and not published: none or one
  subscribed,    \* tabs with a channel in subs
  channel,       \* the events in it
  lists,         \* the version each tab shows, 0 where it has not loaded yet
  fetches,       \* the request of a tab for a list, and the version it has read
  missed         \* history: lists whose last change a tab was not told of, or could not load

eventsVars == <<version, unpublished, subscribed, channel, lists, fetches, missed>>

NoFetch == [step |-> "none", read |-> 0]
Asked   == [step |-> "asked", read |-> 0]

EventsInit ==
  /\ version = [p \in Topics |-> 1] /\ unpublished = [h \in Handlers |-> {}]
  /\ subscribed = {} /\ channel = [t \in Tabs |-> <<>>]
  /\ lists = [t \in Tabs |-> [p \in Topics |-> 0]]
  /\ fetches = [t \in Tabs |-> [p \in Topics |-> NoFetch]]
  /\ missed = [t \in Tabs |-> {}]

-----------------------------------------------------------------------------
(* The server. *)

\* Mutant: a handler that changes a list and returns.
WriteSilently(h, p) ==
  /\ unpublished[h] = {} /\ version[p] < MaxVersion
  /\ version' = [version EXCEPT ![p] = @ + 1]
  /\ UNCHANGED <<unpublished, subscribed, channel, lists, fetches, missed>>

Write(h, p) ==
  /\ unpublished[h] = {} /\ version[p] < MaxVersion
  /\ version' = [version EXCEPT ![p] = @ + 1]
  /\ unpublished' = [unpublished EXCEPT ![h] = {p}]
  /\ UNCHANGED <<subscribed, channel, lists, fetches, missed>>

Full(t) == Len(channel[t]) = Buffer

\* An event that finds the channel full is dropped; one of its kind that is still in there
\* has the list fetched all the same.
Publish(h, p) ==
  /\ p \in unpublished[h] /\ unpublished' = [unpublished EXCEPT ![h] = {}]
  /\ channel' = [t \in Tabs |-> IF t \in subscribed /\ ~Full(t) THEN Append(channel[t], p)
                                ELSE channel[t]]
  /\ missed' = [t \in Tabs |-> IF p \in ToSet(channel'[t]) THEN missed[t]
                               ELSE missed[t] \cup {p}]
  /\ UNCHANGED <<version, subscribed, lists, fetches>>

\* The process ends, with its channels and with what its handlers have not published.
ServerRestart ==
  /\ unpublished' = [h \in Handlers |-> {}]
  /\ subscribed' = {} /\ channel' = [t \in Tabs |-> <<>>]
  /\ missed' = [t \in Tabs |-> missed[t] \cup ToSet(channel[t]) \cup UNION {unpublished[h] : h \in Handlers}]
  /\ UNCHANGED <<version, lists, fetches>>

\* subscribe, and the deferred unsubscribe when the connection is lost.
subscribe(t) ==
  /\ t \notin subscribed /\ \E p \in Topics : lists[t][p] # 0 \/ fetches[t][p] # NoFetch
  /\ subscribed' = subscribed \cup {t}
  /\ UNCHANGED <<version, unpublished, channel, lists, fetches, missed>>

unsubscribe(t) ==
  /\ t \in subscribed /\ subscribed' = subscribed \ {t}
  /\ missed' = [missed EXCEPT ![t] = @ \cup ToSet(channel[t])]
  /\ channel' = [channel EXCEPT ![t] = <<>>]
  /\ UNCHANGED <<version, unpublished, lists, fetches>>

-----------------------------------------------------------------------------
(* The tab. *)

Open(t) ==
  /\ \A p \in Topics : lists[t][p] = 0 /\ fetches[t][p] = NoFetch
  /\ fetches' = [fetches EXCEPT ![t] = [p \in Topics |-> Asked]]
  /\ UNCHANGED <<version, unpublished, subscribed, channel, lists, missed>>

\* onmessage invalidates the query: a request under way is abandoned for a new one, but
\* the first load of a list is not.
onmessage(t) ==
  /\ channel[t] # <<>>
  /\ LET p == Head(channel[t]) IN
     IF fetches[t][p] # NoFetch /\ lists[t][p] = 0
     THEN missed' = [missed EXCEPT ![t] = @ \cup {p}] /\ UNCHANGED fetches
     ELSE fetches' = [fetches EXCEPT ![t][p] = Asked] /\ UNCHANGED missed
  /\ channel' = [channel EXCEPT ![t] = Tail(@)]
  /\ UNCHANGED <<version, unpublished, subscribed, lists>>

\* What is missed is made good by a later load.
Read(t, p) ==
  /\ fetches[t][p] = Asked
  /\ fetches' = [fetches EXCEPT ![t][p] = [step |-> "read", read |-> version[p]]]
  /\ missed' = [missed EXCEPT ![t] = @ \ {p}]
  /\ UNCHANGED <<version, unpublished, subscribed, channel, lists>>

Loaded(t, p) ==
  /\ fetches[t][p].step = "read"
  /\ lists' = [lists EXCEPT ![t][p] = fetches[t][p].read]
  /\ fetches' = [fetches EXCEPT ![t][p] = NoFetch]
  /\ UNCHANGED <<version, unpublished, subscribed, channel, missed>>

\* After one retry.
LoadFails(t, p) ==
  /\ fetches[t][p] # NoFetch
  /\ fetches' = [fetches EXCEPT ![t][p] = NoFetch]
  /\ missed' = [missed EXCEPT ![t] = @ \cup {p}]
  /\ UNCHANGED <<version, unpublished, subscribed, channel, lists>>

EventsNext ==
  \/ \E h \in Handlers, p \in Topics : Write(h, p) \/ Publish(h, p)
  \/ ServerRestart
  \/ \E t \in Tabs : subscribe(t) \/ unsubscribe(t) \/ Open(t) \/ onmessage(t)
  \/ \E t \in Tabs, p \in Topics : Read(t, p) \/ Loaded(t, p) \/ LoadFails(t, p)

EventsSpec == EventsInit /\ [][EventsNext]_eventsVars

-----------------------------------------------------------------------------

Settled(t, p) ==
  /\ fetches[t][p] = NoFetch /\ p \notin ToSet(channel[t])
  /\ \A h \in Handlers : p \notin unpublished[h]

\* sse.go:36 "drop for slow consumers; SSE clients refetch via REST": a tab with nothing
\* under way shows the list as it is, unless its last change was published while the stream
\* was down or full, came during the first load, or could not be loaded.  A change that was
\* dropped is made good by any event of its kind that is still in the channel.
ListsRefetched ==
  \A t \in Tabs, p \in Topics :
    Settled(t, p) /\ lists[t][p] # 0 /\ p \notin missed[t] => lists[t][p] = version[p]
=============================================================================
