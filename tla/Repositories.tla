---------------------------- MODULE Repositories ----------------------------
(***************************************************************************)
(* The repositories over PostgreSQL and their in-memory doubles            *)
(* (persistence/repositories).  Three independent parts:                   *)
(*   - multiplier ticks, written in batches by a buffer that several       *)
(*     flushes may empty at a time (tick-repo.ts);                         *)
(*   - rounds and bets, with queries of round-repo.ts and bet-repo.ts (its *)
(*     transactions are BetStore's);                                       *)
(*   - a prediction and its outcome, resolved by two callers that do not   *)
(*     wait for each other (prediction-repo.ts).                           *)
(* The tests run on the doubles.  Which answers they share with the query  *)
(* they stand for, and exactly when they do not, is stated at the end.     *)
(* Left out, as their text is the same on both sides: the queries of       *)
(* ticks, of sessions and of the bets of a session, a user or a round; and *)
(* the balances of a day, which only the double gives.                     *)
(***************************************************************************)
EXTENDS Naturals, Integers, Sequences, FiniteSets

LOCAL INSTANCE SequencesExt
LOCAL INSTANCE FiniteSetsExt
LOCAL INSTANCE Functions
LOCAL INSTANCE TLC

CONSTANTS MaxTicks,    \* bound: ticks observed
          BatchSize,   \* ticks that make a batch (100)
          MaxStored    \* bound: rows of the table

ASSUME RepoAssumption == MaxTicks \in Nat /\ MaxStored \in Nat

VARIABLES produced,    \* ticks observed
          batchBuffer, \* the batch being collected
          batching,    \* flushTimer # null
          flights,     \* INSERTs awaited
          ticks,       \* ticks with a row
          reported,    \* ticks whose insertion failed before the caller
          deleted,     \* ticks deleted
          stored,      \* rows, in the order of created_at
          prediction,  \* probability of the stored prediction, or Null
          outcome,     \* its row of prediction_outcomes, or NoOutcome
          written,     \* the last verdict and crash point written
          persisting, crashing   \* the two callers

tickVars == <<produced, batchBuffer, batching, flights, ticks, reported, deleted>>
outcomeVars == <<prediction, outcome, written, persisting, crashing>>
repoVars == <<tickVars, stored, outcomeVars>>

Null == 99     \* SQL's NULL: no value of any column; truth values are 0 and 1
-----------------------------------------------------------------------------
(* Ticks are numbered in the order observed; the number is also the time.  *)
TickRound(t) == t % 2

TicksInit ==
  /\ produced = 0 /\ batchBuffer = <<>> /\ batching = FALSE /\ flights = {}
  /\ ticks = {} /\ reported = {} /\ deleted = {}

StartBatching ==
  /\ ~batching /\ batching' = TRUE
  /\ UNCHANGED <<produced, batchBuffer, flights, ticks, reported, deleted>>

TicksOf(batch) == {batch[k] : k \in 1..Len(batch)}

(* The batch is taken off the buffer before its INSERT is awaited.         *)
Flush(b) == batchBuffer' = <<>> /\ flights' = flights \cup {[ticks |-> b, single |-> FALSE]}

Buffered(b) == IF Len(b) >= BatchSize THEN Flush(b) ELSE batchBuffer' = b /\ UNCHANGED flights

InsertSingle(t) == flights' = flights \cup {[ticks |-> <<t>>, single |-> TRUE]} /\ UNCHANGED batchBuffer

InsertTick ==
  /\ produced < MaxTicks /\ produced' = produced + 1
  /\ IF batching THEN Buffered(Append(batchBuffer, produced')) ELSE InsertSingle(produced')
  /\ UNCHANGED <<batching, ticks, reported, deleted>>

FlushTimer ==
  /\ batching /\ batchBuffer # <<>> /\ Flush(batchBuffer)
  /\ UNCHANGED <<produced, batching, ticks, reported, deleted>>

StopBatching ==
  /\ batching' = FALSE
  /\ IF batchBuffer # <<>> THEN Flush(batchBuffer) ELSE UNCHANGED <<batchBuffer, flights>>
  /\ UNCHANGED <<produced, ticks, reported, deleted>>

Flushed(f) ==
  /\ f \in flights /\ flights' = flights \ {f}
  /\ ticks' = ticks \cup TicksOf(f.ticks)
  /\ UNCHANGED <<produced, batchBuffer, batching, reported, deleted>>

(* A batch that failed goes back to the front of the buffer; NoRetry is a  *)
(* mutant.                                                                 *)
NoRetry(failed) == batchBuffer
ForRetry(failed) == failed \o batchBuffer

(* The connection may fail after the rows were committed.  A single tick's *)
(* failure is reported to the caller.                                      *)
FlushFails(f) ==
  /\ f \in flights /\ flights' = flights \ {f}
  /\ \E kept \in {{}, TicksOf(f.ticks)} : ticks' = ticks \cup kept
  /\ batchBuffer' = IF f.single THEN batchBuffer ELSE ForRetry(f.ticks)
  /\ reported' = IF f.single THEN reported \cup TicksOf(f.ticks) ELSE reported
  /\ UNCHANGED <<produced, batching, deleted>>

DeleteTicks(r) ==
  LET gone == {t \in ticks : TickRound(t) = r} IN
  /\ gone # {} /\ ticks' = ticks \ gone /\ deleted' = deleted \cup gone
  /\ UNCHANGED <<produced, batchBuffer, batching, flights, reported>>

TicksNext ==
  \/ StartBatching \/ InsertTick \/ FlushTimer \/ StopBatching
  \/ \E f \in flights : Flushed(f) \/ FlushFails(f)
  \/ \E r \in {0, 1} : DeleteTicks(r)
-----------------------------------------------------------------------------
(* The rows of two tables: rounds (key: the external id; lag: from the     *)
(* creation to the crash, 0 while there is no crash point) and the bets of *)
(* a day.  created_at is the id.  RECONCILED is counted as CASHED_OUT is.  *)
StoredStates == {"RESERVED", "ACTIVE", "FAILED", "LOST", "CASHED_OUT"}
Settled == {"CASHED_OUT", "LOST"}
Profits == {Null, 2, -1}
Lags == {0, 1, 5}
Gone == [table |-> "deleted"]

TableInit == stored = <<>>

CreateRow ==
  /\ Len(stored) < MaxStored
  /\ \/ \E k \in {"a", "b"} : stored' = Append(stored, [table |-> "rounds", key |-> k, lag |-> 0])
     \/ stored' = Append(stored, [table |-> "bets", state |-> "RESERVED", pnl |-> Null])

(* The repositories set the fields they are given, whatever the row says.  *)
UpdateBet(i) ==
  /\ stored[i].table = "bets"
  /\ \E s \in StoredStates, p \in Profits : stored' = [stored EXCEPT ![i].state = s, ![i].pnl = p]

UpdateRound(i) ==
  /\ stored[i].table = "rounds"
  /\ \E l \in Lags : stored' = [stored EXCEPT ![i].lag = l]

DeleteRow(i) == stored[i] # Gone /\ stored' = [stored EXCEPT ![i] = Gone]

TableNext == CreateRow \/ \E i \in 1..Len(stored) : UpdateBet(i) \/ UpdateRound(i) \/ DeleteRow(i)

RowsOf(table) == {i \in 1..Len(stored) : stored[i].table = table}
OldestFirst(S) == SetToSortSeq(S, <)
NewestFirst(S) == SetToSortSeq(S, >)
Cut(s, limit, offset) == SubSeq(s, offset + 1, IF offset + limit < Len(s) THEN offset + limit ELSE Len(s))
First(s) == IF s = <<>> THEN Null ELSE s[1]

WithKey(k) == {i \in RowsOf("rounds") : stored[i].key = k}
RoundByExternalId(k) == First(NewestFirst(WithKey(k)))
AllRounds(limit, offset) == Cut(NewestFirst(RowsOf("rounds")), limit, offset)

(* COALESCE(crashed_at, created_at).                                       *)
EndedAt(i) == i + stored[i].lag
Completed == {i \in RowsOf("rounds") : stored[i].lag > 0}
EndsBefore(i, j) == EndedAt(i) < EndedAt(j)
CompletedInRange(from, to, limit) ==
  Cut(SetToSortSeq({i \in Completed : EndedAt(i) >= from /\ EndedAt(i) < to}, EndsBefore), limit, 0)
RecentCompleted(limit) == Cut(SetToSortSeq(Completed, LAMBDA i, j : EndsBefore(j, i)), limit, 0)

InState(S) == {i \in RowsOf("bets") : stored[i].state \in S}
BetsByState(s, limit) == Cut(NewestFirst(InState({s})), limit, 0)
(* A mutant: the pages come in findByState's order.                        *)
PagedNewestFirst(s, limit, offset) == Cut(NewestFirst(InState({s})), limit, offset)
BetsByStatePaged(s, limit, offset) == Cut(OldestFirst(InState({s})), limit, offset)

Pnl(i) == IF stored[i].pnl = Null THEN 0 ELSE stored[i].pnl
PnlOfBets(S) == MapThenSumSet(Pnl, S)
AtMostZero(n) == IF n < 0 THEN n ELSE 0
AtLeastZero(n) == IF n > 0 THEN n ELSE 0

(* getDailyStats: the money is that of the settled bets, the gross figures *)
(* are the net one, nothing failed or is reserved.                         *)
DailyStatsOf ==
  LET net == PnlOfBets(InState(Settled)) IN
  IF RowsOf("bets") = {} THEN Null
  ELSE [wins |-> Cardinality(InState({"CASHED_OUT"})), losses |-> Cardinality(InState({"LOST"})),
        total |-> Cardinality(RowsOf("bets")), failed |-> 0, reserved |-> 0,
        net |-> net, profit |-> AtLeastZero(net), loss |-> AtMostZero(net)]

(* The doubles' maps keep the order of insertion.                          *)
DoubleRows(table) == SelectSeq([i \in 1..Len(stored) |-> i], LAMBDA i : stored[i].table = table)
DoubleByExternalId(k) == First(SelectSeq(DoubleRows("rounds"), LAMBDA i : stored[i].key = k))
DoubleRounds(limit, offset) == Cut(DoubleRows("rounds"), limit, offset)
DoubleInRange(from, to, limit) ==
  Cut(SortSeq(SelectSeq(DoubleRows("rounds"),
                        LAMBDA i : stored[i].lag > 0 /\ EndedAt(i) >= from /\ EndedAt(i) < to),
              EndsBefore), limit, 0)
DoubleRecent(limit) ==
  Cut(SortSeq(SelectSeq(DoubleRows("rounds"), LAMBDA i : stored[i].lag > 0),
              LAMBDA i, j : EndedAt(i) > EndedAt(j)), limit, 0)
DoubleByState(s, limit) == Cut(SelectSeq(DoubleRows("bets"), LAMBDA i : stored[i].state = s), limit, 0)
DoubleDailyStats ==
  LET bets      == DoubleRows("bets")
      count(s)  == Len(SelectSeq(bets, LAMBDA i : stored[i].state = s))
      total(F(_)) == FoldLeft(LAMBDA sum, i : sum + F(Pnl(i)), 0, bets)
  IN IF bets = <<>> THEN Null
     ELSE [wins |-> count("CASHED_OUT"), losses |-> count("LOST"), total |-> Len(bets),
           failed |-> count("FAILED"), reserved |-> count("RESERVED"),
           net |-> total(LAMBDA n : n), profit |-> total(AtLeastZero), loss |-> total(AtMostZero)]
-----------------------------------------------------------------------------
(* Probabilities and errors are in tenths.  persistAsync stores the        *)
(* prediction and then the risk verdict; resolveActualOutcome, not awaited *)
(* by anybody, the crash point.  Resolving reads the probability first.    *)
Probability == 3
Target == 2
Points == {1, 2, 3}
NoOutcome == [approved |-> Null]

OutcomesInit ==
  /\ prediction = Null /\ outcome = NoOutcome /\ written = [approved |-> Null, crash |-> Null]
  /\ persisting = [at |-> "create", seen |-> Null] /\ crashing = [at |-> "find", seen |-> Null]

PersistPrediction ==
  /\ persisting.at = "create"
  /\ \/ prediction' = Probability /\ persisting' = [persisting EXCEPT !.at = "find"]
     \/ UNCHANGED prediction /\ persisting' = [persisting EXCEPT !.at = "done"]
  /\ UNCHANGED <<outcome, written, crashing>>

FindPrediction ==
  /\ \/ /\ persisting.at = "find" /\ UNCHANGED crashing
        /\ persisting' = [at |-> "write", seen |-> prediction]
     \/ /\ crashing.at = "find" /\ UNCHANGED persisting
        /\ crashing' = [at |-> "write", seen |-> prediction]
  /\ UNCHANGED <<prediction, outcome, written>>

Hits(point) == IF point = Null THEN Null ELSE IF point >= Target THEN 1 ELSE 0
ErrorOf(seen, hit) == IF Null \in {seen, hit} THEN Null ELSE seen - 10 * hit
Magnitude(e) == IF e = Null THEN Null ELSE IF e < 0 THEN -e ELSE e

Given(approved, executed, point, seen) ==
  [approved |-> approved, executed |-> executed, crash |-> point, hit |-> Hits(point),
   error |-> ErrorOf(seen, Hits(point)), absolute |-> Magnitude(ErrorOf(seen, Hits(point)))]

(* ON CONFLICT: what is not given now stays; executed is always given.     *)
(* Overwrites is a mutant.                                                 *)
Overwrites(old, new) == new
Merged(old, new) ==
  [f \in DOMAIN new |-> IF new[f] = Null THEN old[f] ELSE new[f]]

(* Without the prediction the foreign key refuses the row; the error is    *)
(* logged.                                                                 *)
Upsert(new) ==
  IF prediction = Null THEN UNCHANGED <<outcome, written>>
  ELSE /\ outcome' = IF outcome = NoOutcome THEN new ELSE Merged(outcome, new)
       /\ written' = [f \in DOMAIN written |-> IF new[f] = Null THEN written[f] ELSE new[f]]

WriteVerdict ==
  /\ persisting.at = "write" /\ persisting' = [persisting EXCEPT !.at = "done"]
  /\ \E approved \in {0, 1} :
       Upsert(Given(approved, 0, Null, persisting.seen)) \/ UNCHANGED <<outcome, written>>
  /\ UNCHANGED <<prediction, crashing>>

WriteCrash ==
  /\ crashing.at = "write" /\ crashing' = [crashing EXCEPT !.at = "find"]
  /\ \E point \in Points, executed \in {0, 1} :
       Upsert(Given(Null, executed, point, crashing.seen)) \/ UNCHANGED <<outcome, written>>
  /\ UNCHANGED <<prediction, persisting>>

OutcomesNext == PersistPrediction \/ FindPrediction \/ WriteVerdict \/ WriteCrash
-----------------------------------------------------------------------------
RepoInit == TicksInit /\ TableInit /\ OutcomesInit

RepoTypeOK ==
  /\ produced \in 0..MaxTicks /\ batching \in BOOLEAN
  /\ TicksOf(batchBuffer) \cup ticks \cup reported \cup deleted \subseteq 1..produced
  /\ \A f \in flights : f.single => Len(f.ticks) = 1
  /\ Len(stored) <= MaxStored /\ prediction \in {Null, Probability}
  /\ outcome # NoOutcome => outcome.approved \in {0, 1, Null} /\ outcome.executed \in {0, 1}
  /\ persisting.at \in {"create", "find", "write", "done"} /\ crashing.at \in {"find", "write"}

(* A tick that was inserted is in the buffer, in a batch on its way or in  *)
(* the table, however many flushes overlap and whichever of them fail;     *)
(* unless the caller was told otherwise.  (tick-repo.ts insert, flushBatch)*)
NoTickLost ==
  1..produced = TicksOf(batchBuffer) \cup (UNION {TicksOf(f.ticks) : f \in flights})
                  \cup ticks \cup reported \cup deleted

(* The verdict and the crash point, written in any order by callers that   *)
(* do not wait for each other, do not wipe each other out, and the hit and *)
(* the error are those of the crash point.                                 *)
(* (prediction-repo.ts resolveOutcome)                                     *)
OutcomeKept ==
  outcome # NoOutcome =>
    /\ outcome.approved = written.approved /\ outcome.crash = written.crash
    /\ outcome.hit = Hits(outcome.crash)
    /\ outcome.error # Null => outcome.error = ErrorOf(prediction, outcome.hit)
    /\ outcome.absolute = Magnitude(outcome.error)

(* The pages of the bets in a state are all of them, each once: balances   *)
(* are reconciled from them.  The doubles, on which the tests run, answer  *)
(* the queries for completed rounds as the database does, and the others   *)
(* unless: a list is cut (they keep the oldest rows, the query the         *)
(* newest), an external id is there twice, or, for the figures of a day,   *)
(* a bet failed or is reserved, one that is not settled has a profit, or   *)
(* the day has profits and losses (the query's gross figures are the net). *)
(* (bet-repo.ts findByStatePaged, getDailyStats, the InMemory doubles)     *)
QueriesAgree ==
  /\ \A s \in StoredStates, limit \in 1..2 :
       /\ FlattenSeq([p \in 1..MaxStored |-> BetsByStatePaged(s, limit, (p - 1) * limit)])
            = OldestFirst(InState({s}))
       /\ Range(BetsByState(s, limit)) = Range(DoubleByState(s, limit))
            <=> Cardinality(InState({s})) <= limit
  /\ \A limit \in 1..2 :
       /\ CompletedInRange(3, 7, limit) = DoubleInRange(3, 7, limit)
       /\ RecentCompleted(limit) = DoubleRecent(limit)
       /\ Range(AllRounds(limit, 0)) = Range(DoubleRounds(limit, 0))
            <=> Cardinality(RowsOf("rounds")) <= limit
  /\ \A k \in {"a", "b"} :
       RoundByExternalId(k) = DoubleByExternalId(k) <=> Cardinality(WithKey(k)) <= 1
  /\ DailyStatsOf = DoubleDailyStats <=>
       LET bets == RowsOf("bets")
           open == {i \in bets : stored[i].state \notin Settled}
       IN /\ InState({"FAILED", "RESERVED"}) = {} /\ PnlOfBets(open) = 0
          /\ (\A i \in bets : Pnl(i) >= 0) \/ (\A i \in bets : Pnl(i) <= 0)
=============================================================================
