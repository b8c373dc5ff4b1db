---------------------------- MODULE SessionCache ----------------------------
(***************************************************************************)
(* The server's session cache (ssl_cache.c): a chain of entries, which     *)
(* ssl_cache_get searches for a session the client offers and into which    *)
(* ssl_cache_set puts the session of every handshake that completes.       *)
(*                                                                         *)
(* A session is a record with an id, a suite, a master secret and the       *)
(* peer's certificate; an entry adds the time it was stamped.  The          *)
(* certificate of an entry is kept outside its session and is written only  *)
(* when there is one to write.                                             *)
(***************************************************************************)
EXTENDS Integers, Sequences, FiniteSets

CONSTANTS
  MaxEntries,  \* cache->max_entries
  Timeout,     \* cache->timeout, 0 for none
  None         \* a NULL pointer: here, no certificate

ASSUME CacheAssumption == MaxEntries \in Nat /\ Timeout \in Nat

VARIABLES
  chain,  \* cache->chain, first entry first
  now     \* what time() returns

Expired(en) == Timeout # 0 /\ now - en.stamp > Timeout

\* The entries ssl_cache_get may answer with: the session offered has the
\* suite the server has chosen for this handshake.
Matches(s) == {i \in 1..Len(chain) : /\ ~Expired(chain[i])
                                     /\ chain[i].id = s.id
                                     /\ chain[i].suite = s.suite}

First(S) == CHOOSE i \in S : \A j \in S : i <= j

\* Defect: the certificate stays in the cache.
RestoredBare(s) == [s EXCEPT !.master = chain[First(Matches(s))].master]

\* ssl_cache_get: the session offered, with the master secret and the
\* certificate of the first entry that matches.
Restored(s) ==
  LET en == chain[First(Matches(s))]
  IN  [s EXCEPT !.master = en.master, !.peer = IF en.peer = None THEN @ ELSE en.peer]

\* ssl_cache_set stops at the first entry that has expired or has this id.
Reusable(s) == {i \in 1..Len(chain) : Expired(chain[i]) \/ chain[i].id = s.id}

\* The first of the entries with the smallest time stamp.
Oldest == First({i \in 1..Len(chain) : \A j \in 1..Len(chain) : chain[i].stamp <= chain[j].stamp})

Entry(s, peer, stamp) == [id |-> s.id, suite |-> s.suite, master |-> s.master,
                          peer |-> peer, stamp |-> stamp]

\* Defect: the slot keeps the master secret of the session it held.
ReusedSecret(en, s) == [Entry(s, s.peer, now) EXCEPT !.master = en.master]

\* The entry that stays in its slot keeps the certificate it has when the
\* session brings none, and its time stamp unless it had expired.
Reused(en, s) == Entry(s, IF s.peer = None THEN en.peer ELSE s.peer,
                       IF Expired(en) THEN now ELSE en.stamp)

\* Defect: one entry too many.
PutOffByOne(s) ==
  chain' = IF Reusable(s) # {}
           THEN LET i == First(Reusable(s)) IN [chain EXCEPT ![i] = Reused(@, s)]
           ELSE IF chain # <<>> /\ Len(chain) > MaxEntries
           THEN [chain EXCEPT ![Oldest] = Entry(s, s.peer, now)]
           ELSE Append(chain, Entry(s, s.peer, now))

\* ssl_cache_set.  The oldest entry makes room only for a session without a slot.
Put(s) ==
  chain' = IF Reusable(s) # {}
           THEN LET i == First(Reusable(s)) IN [chain EXCEPT ![i] = Reused(@, s)]
           ELSE IF chain # <<>> /\ Len(chain) >= MaxEntries
           THEN [chain EXCEPT ![Oldest] = Entry(s, s.peer, now)]
           ELSE Append(chain, Entry(s, s.peer, now))

-----------------------------------------------------------------------------
\* ssl_cache_set appends only below max_entries, or to the empty chain: the
\* chain never grows past max_entries, and holds one entry even for a
\* max_entries of 0.
CacheBounded == Len(chain) <= IF MaxEntries = 0 THEN 1 ELSE MaxEntries

=============================================================================
