------------------------------ MODULE StatsCache ------------------------------
(***************************************************************************)
(* The bytes_written_10s statistic of the myfirst driver: a cached counter  *)
(* behind stats_cache_sx, refreshed by the first sysctl reader that finds   *)
(* it stale.  A reader tries to upgrade its shared lock; when others share  *)
(* it too, it lets go, takes the lock exclusively and looks again.          *)
(*                                                                          *)
(* ticks is an int, which wraps from Half - 1 to -Half (2^31 in the code);  *)
(* now is the same clock without the wrap.  The cached value is known by    *)
(* the moment it was fetched.                                               *)
(***************************************************************************)
EXTENDS Integers, FiniteSets

CONSTANTS Readers,  \* threads in myfirst_sysctl_bytes_written_10s()
          Half,     \* half the values of an int, 2^31
          Start,    \* the clock when the device attaches
          Horizon,  \* how far the clock is followed from there
          Stale     \* MYFIRST_CACHE_STALE_HZ * hz

ASSUME StatsCacheAssumption ==
    /\ "nobody" \notin Readers
    /\ Half \in Nat \ {0} /\ Horizon \in Nat /\ Stale \in Nat
    /\ Start \in -Half .. Half - 1

VARIABLES now,
          shared, owner,  \* the holders of stats_cache_sx
          fetched_at,     \* stats_cache_bytes_10s, by when it was fetched
          last_refresh,   \* stats_cache_last_refresh_ticks
          refreshes,      \* stats_cache_refreshes
          reader_pc, since  \* each reader's position, and when its call began

cacheVars ==
    <<now, shared, owner, fetched_at, last_refresh, refreshes, reader_pc, since>>

Nobody == "nobody"
Never  == Start - Horizon - Stale - 1

\* The int congruent to n.
Signed(n) == ((n + Half) % (2 * Half)) - Half

ticks == Signed(now)

CacheInit ==
    /\ now = Start
    /\ shared = {} /\ owner = Nobody
    /\ fetched_at = Never /\ last_refresh = 0 /\ refreshes = 0
    /\ reader_pc = [r \in Readers |-> "idle"]
    /\ since = [r \in Readers |-> Start]

ReaderGoto(r, label) == reader_pc' = [reader_pc EXCEPT ![r] = label]

\* Slip: the ticks are compared before they are subtracted.
StaleByOrder == ticks > last_refresh + Stale

\* (ticks - (int)last) > MYFIRST_CACHE_STALE_HZ * hz, in the width of an int.
IsStale == Signed(ticks - last_refresh) > Stale

call(r) ==
    /\ reader_pc[r] = "idle"
    /\ since' = [since EXCEPT ![r] = now]
    /\ ReaderGoto(r, "read_begin")
    /\ UNCHANGED <<now, shared, owner, fetched_at, last_refresh, refreshes>>

\* sx_slock(): new sharers wait behind a thread that waits for the lock
\* exclusively.
MayShare == owner = Nobody /\ \A q \in Readers : reader_pc[q] # "write_begin"

\* sx_xlock()
MayOwn == owner = Nobody /\ shared = {}

read_begin(r) ==
    /\ reader_pc[r] = "read_begin"
    /\ MayShare
    /\ shared' = shared \cup {r}
    /\ ReaderGoto(r, "check")
    /\ UNCHANGED <<now, owner, fetched_at, last_refresh, refreshes, since>>

check(r) ==
    /\ reader_pc[r] = "check"
    /\ ReaderGoto(r, IF IsStale THEN "try_promote" ELSE "read")
    /\ UNCHANGED <<now, shared, owner, fetched_at, last_refresh, refreshes, since>>

\* sx_try_upgrade(): only the sole sharer gets the lock exclusively.
try_promote(r) ==
    /\ reader_pc[r] = "try_promote"
    /\ IF shared = {r}
         THEN shared' = {} /\ owner' = r /\ ReaderGoto(r, "refresh")
         ELSE UNCHANGED <<shared, owner>> /\ ReaderGoto(r, "read_end")
    /\ UNCHANGED <<now, fetched_at, last_refresh, refreshes, since>>

\* Slip: the fallback waits for the exclusive lock with the shared one held.
KeepsShared(r) == UNCHANGED shared

LetsGo(r) == shared' = shared \ {r}

read_end(r) ==
    /\ reader_pc[r] = "read_end"
    /\ LetsGo(r)
    /\ ReaderGoto(r, "write_begin")
    /\ UNCHANGED <<now, owner, fetched_at, last_refresh, refreshes, since>>

write_begin(r) ==
    /\ reader_pc[r] = "write_begin"
    /\ MayOwn
    /\ owner' = r
    /\ ReaderGoto(r, "recheck")
    /\ UNCHANGED <<now, shared, fetched_at, last_refresh, refreshes, since>>

\* Slip: whoever waited for the exclusive lock refreshes.
RecheckAlways == TRUE

\* The second look, under the exclusive lock.
Recheck == IsStale

recheck(r) ==
    /\ reader_pc[r] = "recheck"
    /\ ReaderGoto(r, IF Recheck THEN "refresh" ELSE "downgrade")
    /\ UNCHANGED <<now, shared, owner, fetched_at, last_refresh, refreshes, since>>

\* myfirst_stats_cache_refresh()
refresh(r) ==
    /\ reader_pc[r] = "refresh"
    /\ fetched_at' = now
    /\ last_refresh' = ticks
    /\ refreshes' = refreshes + 1
    /\ ReaderGoto(r, "downgrade")
    /\ UNCHANGED <<now, shared, owner, since>>

downgrade(r) ==
    /\ reader_pc[r] = "downgrade"
    /\ owner' = Nobody /\ shared' = {r}
    /\ ReaderGoto(r, "read")
    /\ UNCHANGED <<now, fetched_at, last_refresh, refreshes, since>>

\* The value, then sx_sunlock().
read(r) ==
    /\ reader_pc[r] = "read"
    /\ since' = [since EXCEPT ![r] = Start]
    /\ shared' = shared \ {r}
    /\ ReaderGoto(r, "idle")
    /\ UNCHANGED <<now, owner, fetched_at, last_refresh, refreshes>>

\* The clock interrupt.
hardclock ==
    /\ now < Start + Horizon
    /\ now' = now + 1
    /\ UNCHANGED <<shared, owner, fetched_at, last_refresh, refreshes>>
    /\ UNCHANGED <<reader_pc, since>>

reader(r) ==
    \/ read_begin(r) \/ check(r) \/ try_promote(r) \/ read_end(r)
    \/ write_begin(r) \/ recheck(r) \/ refresh(r) \/ downgrade(r) \/ read(r)

CacheNext == hardclock \/ \E r \in Readers : call(r) \/ reader(r)

CacheSpec == CacheInit /\ [][CacheNext]_cacheVars

\* A reader inside the handler runs on; nothing makes anybody call it.
CacheFairSpec == CacheSpec /\ \A r \in Readers : WF_cacheVars(reader(r))

------------------------------------------------------------------------------
\* A refresh by two readers that both found the cache stale happens once: two
\* refreshes are more than Stale ticks apart, wrap or no wrap (LOCKING.md:88).
OncePerInterval ==
    [][refreshes' # refreshes /\ refreshes > 0
         => now - fetched_at > Stale]_cacheVars

\* The value a call is about to return was fetched at most Stale ticks before
\* the call began (chapter-15.md:676: "If the current ticks differs from
\* stats_cache_last_refresh_ticks by more than hz (one second's worth), the
\* cache is considered stale").
AnswersFresh ==
    \A r \in Readers : reader_pc[r] = "read" => since[r] - fetched_at <= Stale

\* The same, once the cache has been filled for the first time.
FilledAnswersFresh == refreshes > 0 => AnswersFresh

\* The readers inside the handler never all wait for stats_cache_sx: somebody
\* does not wait, or waits for what can be had, although sharers that want the
\* lock exclusively come between others and the lock.
Waits(r) == \/ reader_pc[r] = "idle"
            \/ reader_pc[r] = "read_begin" /\ ~MayShare
            \/ reader_pc[r] = "write_begin" /\ ~MayOwn

NeverAllWait ==
    (\A r \in Readers : Waits(r)) => \A r \in Readers : reader_pc[r] = "idle"

\* No reader waits for ever, although all of them want to upgrade at once.
CallsFinish == \A r \in Readers : reader_pc[r] # "idle" ~> reader_pc[r] = "idle"
==============================================================================
