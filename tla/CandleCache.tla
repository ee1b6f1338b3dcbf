----------------------------- MODULE CandleCache -----------------------------
(***************************************************************************)
(* The candle cache of the research programs                               *)
(* (process/analyzer/src/harness/sweep/data.rs): a CSV file and, beside    *)
(* it, its provenance.  Any number of processes page candles backward from *)
(* the exchange, commit them, reuse each other's files, crash between any  *)
(* two steps and leave a torn provenance behind.  The cost ladder and the  *)
(* execution study read the CSV alone.                                     *)
(*                                                                         *)
(* Time is counted in ticks, TF ticks to a candle.  A candle is its open   *)
(* time and whether its values are final: the exchange also reports the    *)
(* forming candle, and corrects one for Settle ticks after its close.      *)
(***************************************************************************)
EXTENDS Integers, FiniteSets, FiniteSetsExt

CONSTANTS
  Loaders,       \* processes that load candles
  TF, Settle,    \* ticks of a candle, and of settle_ms
  PageSize,      \* PAGE
  Window,        \* warm-up candles load_csv asks for
  Requests,      \* requested ranges: records [start, end]
  Histories,     \* sets of open times the exchange may have
  FirstClock, MaxClock,
  MaxCrashes, MaxErrors,
  None, Torn

ASSUME CacheAssumption ==
  /\ TF \in Nat \ {0, 1} /\ Settle \in Nat /\ PageSize \in Nat \ {0}
  /\ Window \in Nat
  /\ \A r \in Requests : r.start \in Nat /\ r.end \in Nat /\ r.start <= r.end
  /\ \A h \in Histories : h \subseteq Nat /\ \A o \in h : o % TF = 0
  /\ FirstClock \in Nat /\ MaxClock \in Nat /\ FirstClock <= MaxClock
  /\ MaxErrors \in Nat

VARIABLES
  program,   \* "sweep" or "confirm": whose data directory this is
  history,   \* open times of the candles the exchange has
  paginates, \* does the exchange heed the end of a request?
  clock,
  csv,       \* the CSV file: a set of candles, or None
  prov,      \* the provenance file, None, or Torn
  load,      \* load[p]: what process p is doing
  crashes, errors

vars == <<program, history, paginates, clock, csv, prov, load, crashes, errors>>

Opens == UNION Histories
Candles == Opens \X BOOLEAN

\* A file is there or not, and its content, if any, is not a mark of ours.
ASSUME MarksAssumption ==
  /\ \A cs \in SUBSET Candles : cs # None
  /\ None \notin Requests

-----------------------------------------------------------------------------
(* Pure parts of data.rs, timeframes.rs and dataset.rs.                    *)

IsClosed(o, now) == now - Settle > o + TF

\* retain_range and the filter at the end of fetch_range_with.
RetainRange(cs, r) == {c \in cs : r.start <= c[1] /\ c[1] <= r.end}
Clean(cs, r, cut) == {c \in RetainRange(cs, r) : IsClosed(c[1], cut)}

\* fetch_klines: the last PageSize slots before the exclusive end.
FetchKlines(end) ==
  {<<o, IsClosed(o, clock)>> : o \in {q \in history : /\ q <= clock
                                                      /\ end - PageSize * TF <= q
                                                      /\ q < end}}

MaxPages(r) == ((r.end - r.start) \div TF) \div PageSize + 4

\* Slots without a candle between the first and the last one.
MissingCandles(cs) ==
  IF cs = {} THEN 0
  ELSE LET os == {c[1] : c \in cs} IN (Max(os) - Min(os)) \div TF + 1 - Cardinality(os)

\* validate keeps the closed candles and wants Window + 2 of them.  What else
\* it refuses (unsorted, repeated, misaligned) cannot come out of Clean.
Validates(cs, asOf) == Cardinality({c \in cs : IsClosed(c[1], asOf)}) >= Window + 2

\* load_csv: the rows of a file, if they validate.
LoadsCsv(file, asOf) == file # None /\ Validates(file, asOf)

\* content_sha256 stands for the content.
Provenance(r, dups, cs) == [req |-> r, dups |-> dups, sha256 |-> cs]

\* Mutant: any readable provenance that covers the end of the range will do.
CacheMatchesEnd(r) == prov \notin {None, Torn} /\ r.end <= prov.req.end

CacheMatches(r) == prov \notin {None, Torn} /\ prov.req = r

\* verify_dataset_quality: no gap, no duplicate, exactly the requested range.
Quality(v, cs) ==
  /\ MissingCandles(cs) = 0
  /\ v.dups = 0
  /\ cs # {}
  /\ Min({c[1] : c \in cs}) = v.req.start
  /\ Max({c[1] : c \in cs}) >= v.req.end - TF

-----------------------------------------------------------------------------
Idle == [pc |-> "idle", req |-> None, cut |-> 0, cursor |-> 0, pages |-> 0,
         raw |-> 0, got |-> {}, dups |-> 0, seen |-> None, why |-> None]

Init ==
  /\ program \in {"sweep", "confirm"}
  /\ history \in Histories
  /\ paginates \in BOOLEAN
  /\ clock = FirstClock
  /\ csv = None /\ prov = None
  /\ load = [p \in Loaders |-> Idle]
  /\ crashes = 0 /\ errors = 0

Disk == <<csv, prov>>
World == <<program, history, paginates, clock>>
Faults == <<crashes, errors>>

Set(p, rec) == load' = [load EXCEPT ![p] = rec]
Fail(p, why) == Set(p, [load[p] EXCEPT !.pc = "failed", !.why = why])
\* An I/O or network call of p returns an error.
Error == errors < MaxErrors /\ errors' = errors + 1 /\ UNCHANGED crashes

\* load_symbol.  A screening asks for candles up to its as_of and cuts there;
\* the confirmation asks for a range long past and cuts at the present.
Start(p, r, refresh) ==
  /\ load[p].pc = "idle"
  /\ r.end <= clock
  /\ program = "confirm" => IsClosed(r.end, clock)
  /\ Set(p, [Idle EXCEPT !.pc = IF refresh THEN "fetch" ELSE "probe",
                         !.req = r, !.cursor = r.end,
                         !.cut = IF program = "confirm" THEN clock ELSE r.end])
  /\ UNCHANGED <<Disk, World, Faults>>

\* load_with_cache: is there a CSV, and a provenance of this very request?
Probe(p) ==
  /\ load[p].pc = "probe"
  /\ Set(p, IF csv # None /\ CacheMatches(load[p].req)
            THEN [load[p] EXCEPT !.pc = "read", !.seen = prov]
            ELSE [load[p] EXCEPT !.pc = "fetch"])
  /\ UNCHANGED <<Disk, World, Faults>>

\* verify_dataset_quality, for the confirmation only.
Served(p, v, cs) ==
  IF program = "confirm" /\ ~Quality(v, cs)
  THEN [load[p] EXCEPT !.pc = "failed", !.why = "quality"]
  ELSE [load[p] EXCEPT !.pc = "served", !.got = cs, !.seen = v]

\* Mutant: a CSV that is not the one described is an error.
ReadCacheStrict(p) ==
  /\ load[p].pc = "read"
  /\ LET v == load[p].seen IN
     IF csv # None /\ RetainRange(csv, load[p].req) = v.sha256
     THEN Set(p, Served(p, v, csv))
     ELSE Fail(p, "lost")
  /\ UNCHANGED <<Disk, World, Faults>>

\* The CSV is read after its provenance, and used if it is the one described.
ReadCache(p) ==
  /\ load[p].pc = "read"
  /\ LET v == load[p].seen
         cs == RetainRange(csv, load[p].req) IN
     IF csv = None THEN Fail(p, "lost")
     ELSE IF cs = v.sha256 THEN Set(p, Served(p, v, cs))
     ELSE Set(p, [load[p] EXCEPT !.pc = "fetch", !.seen = None])
  /\ UNCHANGED <<Disk, World, Faults>>

\* Mutant: pages that bring nothing new are not counted.
FetchPageUncounted(p) ==
  /\ load[p].pc = "fetch"
  /\ LET l == load[p]
         batch == FetchKlines(IF paginates THEN l.cursor ELSE l.req.end)
         all == l.got \cup batch
         earliest == Min({c[1] : c \in batch}) IN
     IF batch = {} \/ earliest <= l.req.start
     THEN Set(p, [l EXCEPT !.pc = "write", !.got = Clean(all, l.req, l.cut)])
     ELSE Set(p, [l EXCEPT !.got = all, !.cursor = earliest - 1])
  /\ UNCHANGED <<Disk, World, Faults>>

\* fetch_range_with, one page; the last one ends in the provenance.
FetchPage(p) ==
  /\ load[p].pc = "fetch"
  /\ LET l == load[p]
         batch == FetchKlines(IF paginates THEN l.cursor ELSE l.req.end)
         all == l.got \cup batch
         raw == l.raw + Cardinality(batch)
         earliest == Min({c[1] : c \in batch})
         ends == batch = {} \/ earliest <= l.req.start IN
     IF batch # {} /\ l.pages + 1 > MaxPages(l.req) THEN Fail(p, "pages")
     ELSE IF ends
          THEN Set(p, [l EXCEPT !.pc = "write", !.got = Clean(all, l.req, l.cut),
                                !.dups = raw - Cardinality(all)])
          ELSE Set(p, [l EXCEPT !.pages = @ + 1, !.got = all, !.raw = raw,
                                !.cursor = earliest - 1])
  /\ UNCHANGED <<Disk, World, Faults>>

FetchFails(p) ==
  /\ load[p].pc = "fetch"
  /\ Error /\ Fail(p, "fetch")
  /\ UNCHANGED <<Disk, World>>

\* Mutant: the destination is written in place, and takes what fits the range.
WriteTempInPlace(p) ==
  /\ load[p].pc = "write"
  /\ \E part \in SUBSET load[p].got : csv' = part
  /\ IF LoadsCsv(load[p].got, load[p].req.end)
     THEN Set(p, [load[p] EXCEPT !.pc = "rename"])
     ELSE Fail(p, "short")
  /\ UNCHANGED <<prov, World, Faults>>

\* commit_cache: the temporary file is written and checked through load_csv.
WriteTemp(p) ==
  /\ load[p].pc = "write"
  /\ IF LoadsCsv(load[p].got, load[p].req.end)
     THEN Set(p, [load[p] EXCEPT !.pc = "rename"])
     ELSE Fail(p, "short")
  /\ UNCHANGED <<Disk, World, Faults>>

Rename(p) ==
  /\ load[p].pc = "rename"
  /\ csv' = load[p].got
  /\ Set(p, [load[p] EXCEPT !.pc = "stamp"])
  /\ UNCHANGED <<prov, World, Faults>>

WriteFails(p) ==
  /\ load[p].pc \in {"write", "rename"}
  /\ Error /\ Fail(p, "io")
  /\ UNCHANGED <<Disk, World>>

\* write_provenance truncates the file and then fills it.
OpenProvenance(p) ==
  /\ load[p].pc = "stamp"
  /\ prov' = Torn
  /\ Set(p, [load[p] EXCEPT !.pc = "stamping"])
  /\ UNCHANGED <<csv, World, Faults>>

WriteProvenance(p) ==
  /\ load[p].pc = "stamping"
  /\ LET v == Provenance(load[p].req, load[p].dups, load[p].got) IN
     /\ prov' = v
     /\ Set(p, Served(p, v, load[p].got))
  /\ UNCHANGED <<csv, World, Faults>>

\* The provenance cannot be written: the committed CSV is removed.
StampFails(p) ==
  /\ load[p].pc \in {"stamp", "stamping"}
  /\ csv' = None
  /\ Error /\ Fail(p, "io")
  /\ UNCHANGED <<prov, World>>

\* The program ends, with its dataset or its error.
End(p) ==
  /\ load[p].pc \in {"served", "failed"}
  /\ Set(p, Idle)
  /\ UNCHANGED <<Disk, World, Faults>>

Crash(p) ==
  /\ load[p].pc # "idle"
  /\ crashes < MaxCrashes /\ crashes' = crashes + 1
  /\ Set(p, Idle)
  /\ UNCHANGED <<Disk, World, errors>>

Tick ==
  /\ clock < MaxClock /\ clock' = clock + 1
  /\ UNCHANGED <<Disk, program, history, paginates, load, Faults>>

LoaderStep(p) ==
  \/ Probe(p) \/ ReadCache(p) \/ FetchPage(p) \/ WriteTemp(p) \/ Rename(p)
  \/ OpenProvenance(p) \/ WriteProvenance(p) \/ End(p)

Next ==
  \/ \E p \in Loaders :
       \/ LoaderStep(p)
       \/ \E r \in Requests, refresh \in BOOLEAN : Start(p, r, refresh)
       \/ FetchFails(p) \/ WriteFails(p) \/ StampFails(p) \/ Crash(p)
  \/ Tick

Spec == Init /\ [][Next]_vars /\ \A p \in Loaders : WF_vars(LoaderStep(p))

-----------------------------------------------------------------------------
\* The final candles of a range that were closed at the cut.
Expected(r, cut) ==
  {<<o, TRUE>> : o \in {q \in history : r.start <= q /\ q < r.end /\ IsClosed(q, cut)}}

\* Paging stops at the first empty page.
NoWideHole(r) ==
  \A o \in {q \in history : r.start <= q /\ q < r.end} :
    \/ o + PageSize * TF >= r.end
    \/ \E q \in history : o < q /\ q <= o + PageSize * TF

Slots(r) == {o \in r.start..(r.end - 1) : o % TF = 0}

\* Slots the exchange skipped, after its history had begun.
Holes(r) == {o \in Slots(r) \ history : \E q \in history : q < o}

\* What a load returns, fetched or reused, with any interleaving of processes
\* that share the files and any crash in a commit, are exactly the candles its
\* own request asks for, none of them unfinished (load_with_cache); and the
\* confirmation gets every slot of its range whatever the exchange has
\* (verify_dataset_quality).
ServedComplete ==
  \A p \in Loaders : load[p].pc = "served" =>
    LET l == load[p] IN
    /\ NoWideHole(l.req) => l.got = Expected(l.req, l.cut)
    /\ program = "confirm" =>
         {c[1] : c \in l.got} = Slots(l.req)

\* A load fails only for an error of its own time or for what the exchange
\* has: files that crashes left half committed are never the reason, they are
\* refetched; and the page bound is the reason only if the exchange ignores the
\* end of a request, or skipped more than two pages of slots.
FailsForCause ==
  \A p \in Loaders : load[p].pc = "failed" =>
    \/ errors > 0
    \/ /\ load[p].why = "pages"
       /\ ~paginates \/ Cardinality(Holes(load[p].req)) > 2 * PageSize
    \/ /\ load[p].why = "short"
       /\ NoWideHole(load[p].req) =>
            Cardinality(Expected(load[p].req, load[p].req.end)) < Window + 2
    \/ /\ load[p].why = "quality"
       /\ ~({load[p].req.start} \cup Slots(load[p].req) \subseteq history)

\* A program that reads the CSV without its provenance (load_datasets of the
\* cost ladder and of the execution study) sees one complete committed series,
\* never a part of one or a mixture of two: the file is only ever replaced
\* whole, whichever process dies when.
CsvWhole ==
  csv # None => \E r \in Requests : \E cut \in {r.end} \cup (FirstClock..MaxClock) :
    IF NoWideHole(r) THEN csv = Expected(r, cut) ELSE csv \subseteq Expected(r, cut)

\* Paging ends and so does the load, even from an exchange that sends the same
\* page again and again (the page bound of fetch_range_with).
LoadsEnd == \A p \in Loaders : load[p].pc # "idle" ~> load[p].pc = "idle"
=============================================================================
