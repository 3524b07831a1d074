---------------------------- MODULE K8sCRHandler ----------------------------
(* The watch of a K8sCRHandler on the custom resources (CRs) of one kind:     *)
(* the API server sends the versions of each CR in the order they were        *)
(* written, the watcher thread puts a version into the cache and hands its    *)
(* callback to the executor, the executor runs the callbacks of a CR one      *)
(* after the other.  The watch may break in two ways: it is initialised from  *)
(* a new list, or it goes on at a later version and never sees those between. *)
(*                                                                            *)
(* A module that uses a handler instantiates this one for the kind of its     *)
(* CRs; its callbacks take the head of calls[n].  The order of the versions   *)
(* of different CRs is left open: no handler relates them.                    *)
EXTENDS Naturals, Sequences

CONSTANTS
    Names,   \* names of CRs; a name is used once
    CR,      \* the contents a CR may have
    NotYet,  \* no CR of that name was ever written
    Gone,    \* the CR was deleted; as a version: the DELETED event
    MaxPending \* bound: versions of a CR on their way

VARIABLES
    crs,     \* crs[n]: the CR at the API server
    stream,  \* stream[n]: versions the watcher has not read yet
    cache,   \* cache[n]: the CR in _cr_cache
    calls    \* calls[n]: versions whose callback waits in the executor

watch_vars == <<crs, stream, cache, calls>>

Version == CR \union {Gone}
Entry == CR \union {NotYet, Gone}

WatchTypeOK ==
    /\ crs \in [Names -> Entry]
    /\ cache \in [Names -> Entry]
    /\ stream \in [Names -> Seq(Version)]
    /\ calls \in [Names -> Seq(Version)]

WatchInit ==
    /\ crs = [n \in Names |-> NotYet]
    /\ cache = [n \in Names |-> NotYet]
    /\ stream = [n \in Names |-> <<>>]
    /\ calls = [n \in Names |-> <<>>]

Exists(n) == crs[n] \notin {NotYet, Gone}

\* check_cr_exists, which asks the cache.
Cached(n) == cache[n] \notin {NotYet, Gone}

\* The API server takes a new version of a CR, whoever writes it.
Write(n, version) ==
    /\ Len(stream[n]) + Len(calls[n]) < MaxPending
    /\ crs' = [crs EXCEPT ![n] = version]
    /\ stream' = [stream EXCEPT ![n] = Append(@, version)]

\* The watcher reads a version, caches it and submits its callback.
Watch_on_crs(n) ==
    /\ stream[n] # <<>>
    /\ stream' = [stream EXCEPT ![n] = Tail(@)]
    /\ cache' = [cache EXCEPT ![n] = Head(stream[n])]
    /\ calls' = [calls EXCEPT ![n] = Append(@, Head(stream[n]))]
    /\ UNCHANGED crs

\* "Too old resource version": the watcher goes on at the version the error
\* names; what was written before is neither cached nor called back.
Too_old ==
    /\ \E n \in Names : stream[n] # <<>>
    /\ stream' = [n \in Names |-> <<>>]
    /\ UNCHANGED <<crs, cache, calls>>

\* The list that refreshes the cache every five minutes.
Synchronize_cache ==
    /\ cache # crs
    /\ cache' = crs
    /\ UNCHANGED <<crs, stream, calls>>

\* After another error of the API the watcher lists the CRs: the cache is
\* replaced and every CR of the list called back as ADDED.  A CR deleted in
\* between is in no list and in no event.
Listed(n) == IF Exists(n) THEN <<crs[n]>> ELSE <<>>

(* mutant: a CR that is in the cache already is not called back *)
Init_watcher_new_only ==
    /\ stream' = [n \in Names |-> <<>>]
    /\ cache' = crs
    /\ calls' = [n \in Names |-> IF cache[n] = crs[n] THEN calls[n] ELSE calls[n] \o Listed(n)]
    /\ UNCHANGED crs

Init_watcher ==
    /\ stream' = [n \in Names |-> <<>>]
    /\ cache' = crs
    /\ calls' = [n \in Names |-> calls[n] \o Listed(n)]
    /\ UNCHANGED crs

\* A new process begins with a list.
Start_watcher ==
    /\ stream' = [n \in Names |-> <<>>]
    /\ cache' = crs
    /\ calls' = [n \in Names |-> Listed(n)]
    /\ UNCHANGED crs

\* The executor has run the first callback of a CR.
Called(n) ==
    /\ calls[n] # <<>>
    /\ calls' = [calls EXCEPT ![n] = Tail(@)]

=============================================================================
