-------------------------- MODULE SourceProjection --------------------------
(***************************************************************************)
(* The adapters of rust/src/adapters that read a source file themselves,   *)
(* while other programs may write to it or put another in its place:       *)
(*   "npy"    a window of an array              "sigmf"  a window of samples *)
(*   "zeek"   the rows of a connection log      "sdr4iot" detections, CSV  *)
(*   "kismet" the packets of a database, by way of a copy                  *)
(* No file is locked.  An adapter notes the identity of a file when it     *)
(* opens it and compares it when it has read; that of a database looks for *)
(* the journals of a writer before and after it copies.                    *)
(*                                                                         *)
(* A file is a sequence of cells, read one by one: a header, a value, a    *)
(* byte of a sample, a line, a row.  Its identity is its inode and how     *)
(* often that was written to, which stands for its times and its length.   *)
(***************************************************************************)
EXTENDS Integers, Sequences, FiniteSets, SequencesExt, FiniteSetsExt

CONSTANTS
  Requests,   \* Requests[a]: what adapter a may be asked for
  Standing0,  \* Standing0[a]: what its source files may hold at first, by name
  Others,     \* Others[a]: what other programs may make of them, by name
  MaxEdits    \* bound: changes by other programs

Adapters == DOMAIN Requests
Refused == [status |-> "refused"]    \* with whatever error
Pending == [status |-> "pending"]

\* Lines of a log that are no rows; rows are positive numbers.
Blank == 0
Close == -1
Directive == -2
BadRow == -3

\* The names of the files, and what may be asked for and stand in them: the cell
\* that an adapter takes for a header is one, also when others wrote it.
Names == [npy |-> {"array"}, sigmf |-> {"meta", "core", "osu"}, zeek |-> {"log"},
          sdr4iot |-> {"csv"}, kismet |-> {"db"}]

Orders == {"le", "be", "none"}

IsRequest(a, q) ==
  CASE a = "npy"    -> q.first \in Nat /\ q.count \in Nat \ {0}
    [] a = "sigmf"  -> q.first \in Nat /\ q.count \in Nat \ {0} /\ q.order \in Orders
    [] OTHER        -> q.rows \in Nat

IsTuple(s) == Len(s) \in Nat /\ s = [i \in 1 .. Len(s) |-> s[i]]

IsMetadata(m) ==
  /\ m.dialect \in {"core", "osu"} /\ m.order \in Orders /\ m.declared \in Nat
  /\ m.fit \in BOOLEAN /\ IsTuple(m.segments)
  /\ \A i \in DOMAIN m.segments : m.segments[i][1] \in Nat

IsFile(a, n, c) ==
  /\ IsTuple(c) /\ c # <<>>
  /\ a = "npy" => c[1].says \in Nat
  /\ n = "meta" => IsMetadata(c[1])
  /\ a \in {"zeek", "sdr4iot"} => \A i \in 2 .. Len(c) : c[i] \in Int /\ c[i] >= BadRow
  /\ a = "kismet" => \A i \in 2 .. Len(c) : c[i].mark \in {"good", "error", "invalid"}

SourceAssumption ==
  \A a \in Adapters :
    /\ a \in DOMAIN Names /\ \A q \in Requests[a] : IsRequest(a, q)
    /\ \A f \in Standing0[a] : /\ f = [n \in Names[a] |-> f[n]]
                               /\ \A n \in Names[a] : f[n] = <<>> \/ IsFile(a, n, f[n])
    /\ \A n \in Names[a] : \A g \in Others[a][n] : IsFile(a, n, g)

VARIABLES
  adapter, request,
  names,      \* the inode that a name stands for, 0 if there is none
  inodes,     \* how often each was written to and what it holds
  journal,    \* of a database that is being written to
  committed,  \* it has been, since the call began
  seen,       \* every state that the files stood in, by name, since the call began
  edits,
  reader      \* next step of the call, what it noted and read, and its answer

source == <<names, inodes, journal, committed, seen, edits>>
vars   == <<adapter, request, source, reader>>

\* What stands on disk, by name; <<>> is no file, as none is empty.
Standing == [n \in DOMAIN names |-> IF names[n] = 0 THEN <<>> ELSE inodes[names[n]].holds]

\* f with v bound to x.
Bind(f, x, v) == [y \in DOMAIN f \cup {x} |-> IF y = x THEN v ELSE f[y]]

\* Numbers in their order, and the cells of a file at positions in theirs.
InOrder(S) ==
  [k \in 1 .. Cardinality(S) |-> CHOOSE i \in S : Cardinality({j \in S : j < i}) = k - 1]

Picked(file, positions) ==
  [k \in 1 .. Cardinality(positions) |-> file[InOrder(positions)[k]]]

-----------------------------------------------------------------------------
(* The calls, as lists of steps.                                           *)

Do(what, on) == [do |-> what, on |-> on]

NpySteps == <<Do("open", "array"), Do("read", "header"), Do("check", "header"),
              Do("read", "array"), Do("fence", "array"), Do("answer", "array")>>

\* Mutant: the metadata is not looked at again.
SigmfStepsOnce == <<Do("open", "meta"), Do("read", "meta"), Do("fence", "meta"), Do("check", "meta"),
                    Do("open", "data"), Do("check", "data"), Do("read", "data"),
                    Do("fence", "data"), Do("answer", "data")>>

SigmfSteps == <<Do("open", "meta"), Do("read", "meta"), Do("fence", "meta"), Do("check", "meta"),
                Do("open", "data"), Do("check", "data"), Do("read", "data"),
                Do("fence", "data"), Do("fence", "meta"), Do("answer", "data")>>

ZeekSteps == <<Do("open", "log"), Do("read", "log"), Do("fence", "log"), Do("answer", "log")>>
CsvSteps == <<Do("open", "csv"), Do("read", "csv"), Do("fence", "csv"), Do("answer", "csv")>>
KismetSteps == <<Do("sidecars", "db"), Do("open", "db"), Do("read", "db"),
                 Do("sidecars", "db"), Do("answer", "db")>>

Steps == CASE adapter = "npy" -> NpySteps [] adapter = "sigmf" -> SigmfSteps
           [] adapter = "zeek" -> ZeekSteps [] adapter = "sdr4iot" -> CsvSteps
           [] adapter = "kismet" -> KismetSteps

Begin(a, q, f) ==
  /\ adapter = a /\ request = q
  /\ LET all == SetToSeq(DOMAIN f) IN
       /\ names = [n \in DOMAIN f |-> IF f[n] = <<>> THEN 0
                                      ELSE CHOOSE i \in DOMAIN all : all[i] = n]
       /\ inodes = [i \in DOMAIN all |-> [ver |-> 0, holds |-> f[all[i]]]]
  /\ journal \in (IF a = "kismet" THEN BOOLEAN ELSE {FALSE})
  /\ committed = FALSE /\ seen = {f} /\ edits = 0
  /\ reader = [at |-> 1, noted |-> <<>>, got |-> <<>>, answer |-> Pending]

Init == \E a \in Adapters : \E q \in Requests[a], f \in Standing0[a] : Begin(a, q, f)

-----------------------------------------------------------------------------
(* What is read, and what is made of it.  got[n] are the cells of n read.  *)

Now == Steps[reader.at]
Running == reader.answer = Pending
At(what) == Running /\ Now.do = what
Got(n) == IF n \in DOMAIN reader.got THEN reader.got[n] ELSE <<>>
Meta == Got("meta")[1]
Header == Got("header")[1]

\* The name of a file: samples are in the sibling that the dialect calls for.
Path(n) == IF n = "header" THEN "array" ELSE IF n = "data" THEN Meta.dialect ELSE n
Noted(n) == reader.noted[Path(n)]

\* window_center_frequency: the frequency that all segments which the window
\* touches are tuned to; they are pairs of a first sample and a frequency or 0.
WindowCenterFrequency(segments) ==
  LET next(i) == IF i < Len(segments) THEN segments[i + 1][1] ELSE request.first + request.count + 1
      touched == {i \in DOMAIN segments : /\ segments[i][1] < request.first + request.count
                                          /\ next(i) > request.first}
      tuned == {segments[i][2] : i \in touched}
  IN IF Cardinality(tuned) = 1 THEN CHOOSE f \in tuned : TRUE ELSE 0

Increasing(segments) ==
  /\ segments # <<>> => segments[1][1] = 0
  /\ \A i \in 2 .. Len(segments) : segments[i - 1][1] < segments[i][1]

\* parse_sigmf_core, parse_osu_lora_v2, and the dialect asked for.
MetadataIsFit ==
  /\ Meta.fit
  /\ request.dialect \in {"auto", Meta.dialect}
  /\ Increasing(Meta.segments)
  /\ Meta.dialect = "osu" => Meta.segments # <<>>

\* resolve_byte_order; "none" when neither declares one.
ByteOrder == IF Meta.order # "none" THEN Meta.order ELSE request.order

Fit(n) ==
  CASE n = "header" -> Header.rank = request.rank /\ Noted("array").len = 1 + Header.says
    [] n = "meta"   -> MetadataIsFit
    [] n = "data"   -> Meta.order = "none" \/ request.order \in {"none", Meta.order}

Least(a, b) == IF a < b THEN a ELSE b
Saturating(n) == IF n < 0 THEN 0 ELSE n

ObservedCount == Least(Saturating(Header.says - request.first), request.count)

\* Bytes of samples, two to each: what is there or declared, whole samples only.
PlannedBytes ==
  LET len == IF Meta.dialect = "osu" THEN Least(Noted("data").len, 2 * Meta.declared)
             ELSE Noted("data").len
      planned == Least(Saturating(len - 2 * request.first), 2 * request.count)
  IN IF ByteOrder = "none" THEN 0 ELSE planned - (planned % 2)

\* The cells wanted of a file: those after `from', so many of them.
Wanted(n) ==
  CASE n = "header" -> [from |-> 0, cells |-> 1]
    [] n = "array"  -> [from |-> 1 + request.first, cells |-> ObservedCount]
    [] n = "data"   -> [from |-> 2 * request.first, cells |-> PlannedBytes]
    [] OTHER        -> [from |-> 0, cells |-> Noted(n).len]

Advance == reader' = [reader EXCEPT !.at = @ + 1]
Refuse  == reader' = [reader EXCEPT !.answer = Refused]

-----------------------------------------------------------------------------
(* The steps of a call.                                                    *)

\* open_regular: the name is looked at, opened, and the two compared.
Open ==
  /\ At("open")
  /\ LET id == names[Path(Now.on)] IN
     IF id = 0 THEN Refuse
     ELSE reader' = [reader EXCEPT !.at = @ + 1, !.noted =
            Bind(@, Path(Now.on), [id |-> id, ver |-> inodes[id].ver, len |-> Len(inodes[id].holds)])]
  /\ UNCHANGED <<adapter, request, source>>

Opened == inodes[Noted(Now.on).id]
Position == Wanted(Now.on).from + Len(Got(Now.on)) + 1

\* A copy of a database goes on to the end that it finds.
Enough == IF adapter = "kismet" THEN Position > Len(Opened.holds)
          ELSE Len(Got(Now.on)) = Wanted(Now.on).cells

\* read_exact_range, read_exact: the next cell of the opened file.  Of sigmf
\* a file that ends early is taken as it is, and left to the fence.
Read ==
  /\ At("read") /\ ~Enough
  /\ IF Position > Len(Opened.holds) THEN (IF adapter = "sigmf" THEN Advance ELSE Refuse)
     ELSE reader' = [reader EXCEPT !.got =
            Bind(@, Now.on, Append(Got(Now.on), Opened.holds[Position]))]
  /\ UNCHANGED <<adapter, request, source>>

ReadAll == At("read") /\ Enough /\ Advance /\ UNCHANGED <<adapter, request, source>>

\* What read_header, the parsers of metadata and resolve_byte_order refuse.
Check ==
  /\ At("check")
  /\ IF Fit(Now.on) THEN Advance ELSE Refuse
  /\ UNCHANGED <<adapter, request, source>>

\* fence_source: the name still stands for the opened file, unchanged.
Fence ==
  /\ At("fence")
  /\ IF names[Path(Now.on)] = Noted(Now.on).id /\ Opened.ver = Noted(Now.on).ver
     THEN Advance ELSE Refuse
  /\ UNCHANGED <<adapter, request, source>>

\* reject_sidecars.
RejectSidecars ==
  /\ At("sidecars")
  /\ IF journal THEN Refuse ELSE Advance
  /\ UNCHANGED <<adapter, request, source>>

-----------------------------------------------------------------------------
(* What the adapters make of what they read.                               *)

NpyWindow ==
  [status |-> "accepted", values |-> Got("array"),
   complete |-> ObservedCount = request.count]

SigmfWindow ==
  [status |-> "accepted", bytes |-> Got("data"), dialect |-> Meta.dialect, order |-> ByteOrder,
   center |-> WindowCenterFrequency(Meta.segments),
   complete |-> Len(Got("data")) \div 2 = request.count]

\* Rows in the order of their values, and equal ones in that of the file.
Ascending(rows) ==
  LET earlier(i) == {j \in DOMAIN rows : rows[j] < rows[i] \/ (rows[j] = rows[i] /\ j < i)}
  IN [k \in DOMAIN rows |-> rows[CHOOSE i \in DOMAIN rows : Cardinality(earlier(i)) = k - 1]]

\* parse_conn_log.  The header, eight lines or seven, is one cell.
ConnLog(log) ==
  LET body == Tail(log)
      last == Len(body)
      lines == last + (IF log[1] = "open" THEN 8 ELSE 7)
      misplaced(i) == \/ body[i] = Directive
                      \/ body[i] = Close /\ (i # last \/ log[1] # "open")
      rows == IF body # <<>> /\ Last(body) = Close THEN Front(body) ELSE body
  IN IF \/ log[1] = "bad" \/ lines > request.rows + 9
        \/ \E i \in 1 .. last : body[i] = Blank \/ misplaced(i)
        \/ BadRow \in Range(rows) \/ Len(rows) > request.rows
     THEN Refused
     ELSE [status |-> "accepted", rows |-> Ascending(rows)]

\* parse_csv; the digest of the source stands for what was read.
Detections(csv) ==
  LET body == Tail(csv)
      rows == Picked(body, {i \in DOMAIN body : body[i] # Blank})
  IN IF csv[1] = "bad" \/ Len(rows) > request.rows \/ Range(rows) \cap {BadRow, Directive, Close} # {}
     THEN Refused
     ELSE [status |-> "accepted", rows |-> rows, of |-> csv]

\* select_datasource and read_packets, in the order of row ids.
Packets(db) ==
  LET rows == Tail(db)
      sources == {rows[i].source : i \in DOMAIN rows}
      chosen == Picked(rows, {i \in DOMAIN rows : request.source \in {"any", rows[i].source}})
      taken == SubSeq(chosen, 1, Least(Len(chosen), request.rows))
      marked(m) == Picked(taken, {i \in DOMAIN taken : taken[i].mark = m})
  IN IF \/ db[1].version \notin {9, 10}
        \/ request.source = "any" /\ Cardinality(sources) > 1
        \/ marked("invalid") # <<>>
     THEN Refused
     ELSE [status |-> "accepted", of |-> db, packets |-> marked("good"),
           quarantines |-> marked("error"),
           complete |-> Len(chosen) <= request.rows /\ marked("error") = <<>>]

Projection ==
  CASE adapter = "npy" -> NpyWindow [] adapter = "sigmf" -> SigmfWindow
    [] adapter = "zeek" -> ConnLog(Got("log")) [] adapter = "sdr4iot" -> Detections(Got("csv"))
    [] adapter = "kismet" -> Packets(Got("db"))

\* A copy that no database ever was may be more than SQLite can read.
Torn == adapter = "kismet" /\ \A s \in seen : s["db"] # Got("db")

Answer ==
  /\ At("answer")
  /\ \/ reader' = [reader EXCEPT !.answer = Projection]
     \/ Torn /\ Refuse
  /\ UNCHANGED <<adapter, request, source>>

-----------------------------------------------------------------------------
(* Other programs.                                                         *)

Changed == seen' = IF journal' THEN seen ELSE seen \cup {Standing'}

\* Another file is given the name.
Replace(n, g) ==
  /\ Running /\ edits < MaxEdits /\ ~journal
  /\ inodes' = Append(inodes, [ver |-> 0, holds |-> g])
  /\ names' = [names EXCEPT ![n] = Len(inodes')]
  /\ edits' = edits + 1
  /\ UNCHANGED <<adapter, request, journal, committed, reader>>
  /\ Changed

Unlink(n) ==
  /\ Running /\ edits < MaxEdits /\ ~journal /\ names[n] # 0
  /\ names' = [names EXCEPT ![n] = 0]
  /\ edits' = edits + 1
  /\ UNCHANGED <<adapter, request, inodes, journal, committed, reader>>
  /\ Changed

\* A cell is overwritten or appended, or the end cut off.
Write(n, g, i) ==
  /\ Running /\ edits < MaxEdits /\ names[n] # 0
  /\ adapter = "kismet" => journal
  /\ LET old == inodes[names[n]].holds
         rest == SubSeq(old, i + 1, Len(old))
     IN /\ i <= Len(old) + 1
        /\ \E end \in {rest, <<>>} :
             inodes' = [inodes EXCEPT ![names[n]] =
               [ver |-> @.ver + 1, holds |-> SubSeq(old, 1, i - 1) \o <<g[i]>> \o end]]
  /\ edits' = edits + 1
  /\ UNCHANGED <<adapter, request, names, journal, committed, reader>>
  /\ Changed

\* A transaction on the database, under a journal of its own.
BeginTransaction ==
  /\ Running /\ adapter = "kismet" /\ edits < MaxEdits /\ ~journal
  /\ journal' = TRUE
  /\ UNCHANGED <<adapter, request, names, inodes, committed, seen, edits, reader>>

Commit ==
  /\ Running /\ journal
  /\ journal' = FALSE /\ committed' = TRUE
  /\ UNCHANGED <<adapter, request, names, inodes, edits, reader>>
  /\ Changed

Next ==
  \/ Open \/ Read \/ ReadAll \/ Check \/ Fence \/ RejectSidecars \/ Answer
  \/ \E n \in DOMAIN names :
       \/ Unlink(n)
       \/ \E g \in Others[adapter][n] : Replace(n, g)
       \/ \E g \in Others[adapter][n] : \E i \in DOMAIN g : Write(n, g, i)
  \/ BeginTransaction \/ Commit

Spec == Init /\ [][Next]_vars

-----------------------------------------------------------------------------
(* What a reader would say who saw all files at once, from what the        *)
(* formats mean.                                                           *)

Window == request.first .. request.first + request.count - 1

ArrayOf(s) ==
  LET there == {i \in Window : i < s["array"][1].says}
  IN IF s["array"] = <<>> THEN Refused
     ELSE IF s["array"][1].rank # request.rank \/ Len(s["array"]) # 1 + s["array"][1].says
     THEN Refused
     ELSE [status |-> "accepted", complete |-> there = Window,
           values |-> [k \in 1 .. Cardinality(there) |-> s["array"][InOrder(there)[k] + 2]]]

\* The frequency that each sample was taken at, 0 if that is not known.
Tuned(segments, i) ==
  LET before == {k \in DOMAIN segments : segments[k][1] <= i}
  IN IF before = {} THEN 0 ELSE segments[Max(before)][2]

Described(m) ==
  /\ m.fit /\ request.dialect \in {"auto", m.dialect}
  /\ \A k \in DOMAIN m.segments : k = 1 <=> m.segments[k][1] = 0
  /\ \A j, k \in DOMAIN m.segments : j < k => m.segments[j][1] < m.segments[k][1]
  /\ m.dialect = "osu" => m.segments # <<>>
  /\ {m.order, request.order} # {"le", "be"}

SamplesOf(s) ==
  IF s["meta"] = <<>> THEN Refused
  ELSE LET m == s["meta"][1]
           data == s[m.dialect]
           order == CHOOSE o \in {"le", "be", "none"} :
                      IF {m.order, request.order} = {"none"} THEN o = "none"
                      ELSE o # "none" /\ o \in {m.order, request.order}
           there == {i \in Window : /\ 2 * i + 2 <= Len(data) /\ order # "none"
                                    /\ m.dialect = "osu" => i < m.declared}
           center == {Tuned(m.segments, i) : i \in Window}
       IN IF ~Described(m) \/ data = <<>> THEN Refused
          ELSE [status |-> "accepted", dialect |-> m.dialect, order |-> order,
                complete |-> there = Window,
                center |-> IF Cardinality(center) = 1 THEN CHOOSE f \in center : TRUE ELSE 0,
                bytes |-> [k \in 1 .. 2 * Cardinality(there) |-> data[2 * request.first + k]]]

\* Rows, after a header, with a close only where the header opened.
LogOf(s) ==
  LET log == s["log"]
      accepted == \E n \in 0 .. request.rows :
        /\ log # <<>> /\ log[1] # "bad" /\ Len(log) > n
        /\ \A i \in 2 .. n + 1 : log[i] > 0
        /\ Len(log) = n + 1 \/ (log[1] = "open" /\ Len(log) = n + 2 /\ log[n + 2] = Close)
      rows == {i \in 2 .. Len(log) : log[i] > 0}
      sorted(r) == /\ \A i \in 2 .. Len(r) : r[i - 1] <= r[i]
                   /\ \A v \in {log[i] : i \in rows} :
                        Cardinality({i \in DOMAIN r : r[i] <= v})
                          = Cardinality({i \in rows : log[i] <= v})
  IN IF ~accepted THEN Refused
     ELSE [status |-> "accepted", rows |->
             CHOOSE r \in [1 .. Cardinality(rows) -> {log[i] : i \in rows}] : sorted(r)]

DetectionsOf(s) ==
  LET csv == s["csv"]
      rows == {i \in 2 .. Len(csv) : csv[i] > 0}
  IN IF \/ csv = <<>> \/ csv[1] = "bad" \/ Cardinality(rows) > request.rows
        \/ \E i \in 2 .. Len(csv) : csv[i] < 0
     THEN Refused
     ELSE [status |-> "accepted", rows |-> Picked(csv, rows), of |-> csv]

\* The first packets of the source, those marked as errors apart.
PacketsOf(s) ==
  LET db == s["db"]
      all == 2 .. Len(db)
      mine == {i \in all : request.source \in {"any", db[i].source}}
      first == {i \in mine : Cardinality({j \in mine : j < i}) < request.rows}
      marked(m) == {i \in first : db[i].mark = m}
  IN IF \/ db = <<>> \/ db[1].version \notin {9, 10} \/ marked("invalid") # {}
        \/ request.source = "any" /\ \E i, j \in all : db[i].source # db[j].source
     THEN Refused
     ELSE [status |-> "accepted", of |-> db, packets |-> Picked(db, marked("good")),
           quarantines |-> Picked(db, marked("error")), complete |-> marked("good") = mine]

Reference(s) ==
  CASE adapter = "npy" -> ArrayOf(s) [] adapter = "sigmf" -> SamplesOf(s)
    [] adapter = "zeek" -> LogOf(s) [] adapter = "sdr4iot" -> DetectionsOf(s)
    [] adapter = "kismet" -> PacketsOf(s)

TypeOK ==
  /\ adapter \in Adapters /\ request \in Requests[adapter]
  /\ \A n \in DOMAIN names : names[n] \in 0 .. Len(inodes)
  /\ {journal, committed} \subseteq BOOLEAN /\ edits \in 0 .. MaxEdits
  /\ reader.at \in 1 .. Len(Steps)

(* What an adapter returns is what it would have, had it seen all files at *)
(* one moment of the call: values of one array with its header, samples    *)
(* with the metadata that described them then, the rows of one log, and    *)
(* not a mixture, although files are written to and replaced between any   *)
(* two reads; and it refuses nothing that stood unchanged and is well      *)
(* formed.  The copy of a database may be a mixture when a writer began    *)
(* and committed while it was made, as neither look at the journals can    *)
(* tell (stage_kismetdb).                                                  *)
ProjectionIsOfSource ==
  /\ reader.answer.status = "accepted" =>
       \/ \E s \in seen : reader.answer = Reference(s)
       \/ adapter = "kismet" /\ committed
  /\ reader.answer = Refused /\ edits = 0 /\ ~journal /\ ~committed =>
       Reference(Standing) = Refused

=============================================================================
