--------------------------- MODULE QuotingProofs ---------------------------
(***************************************************************************)
(* Proofs about Quoting, for any files, number of handlers at once, quotes *)
(* and requests.                                                           *)
(***************************************************************************)
EXTENDS Quoting, SequenceTheorems, FiniteSetTheorems, TLAPS

(***************************************************************************)
(* The inductive invariant.                                                *)
(***************************************************************************)

Row == [origin : Nat \cup {None}, born : Nat, rev : Nat, by : {"system", "customer", "split"},
        conf : BOOLEAN, status : QuoteStatus, items : SUBSET Files]
FileRow == [status : FileStatus, tech : Technologies, grams : BOOLEAN]

\* What a handler may hold.
Memory ==
    [op : {"idle", "auto", "material", "expire", "purge"}]
    \cup [op : {"progress"}, file : Files, tech : Technologies]
    \cup [op : {"answer", "switch"}, file : Files, tech : Technologies,
          status : FileStatus, grams : BOOLEAN]
    \cup [op : {"persist", "store"}, items : SUBSET Files, ok : BOOLEAN, origin : Nat \cup {None}]
    \cup [op : {"configure", "requantify"}, quote : Nat, row : Row, refs : SUBSET Files]
    \cup [op : {"accept"}, quote : Nat]
    \cup [op : {"split"}, quote : Nat, group : SUBSET Files, kept : BOOLEAN, moved : BOOLEAN]

FileKinds ==
    /\ project \in {"draft", "expired"} /\ bought \in {"none", "session", "making"}
    /\ file \in [Files -> FileRow]
    /\ jobs \in [Files -> [Technologies -> Nat]]

Kinds == FileKinds /\ run \in [Slots -> Memory] /\ asked \in 0 .. MaxRequests

\* A revision is of a root that is there, no two the system priced are the same,
\* one quote has the highest of all, and a line is on one quote alone.
WellKept(rows) ==
    /\ rows \in Seq(Row)
    /\ \A q \in 1 .. Len(rows) :
        /\ rows[q].rev \in 1 .. Len(rows) /\ rows[q].born \in 1 .. Len(rows)
        /\ rows[q].origin # None =>
              rows[q].origin \in 1 .. Len(rows) /\ rows[rows[q].origin].origin = None
    /\ \A p, q \in 1 .. Len(rows) : p # q /\ rows[p].by = "system" /\ rows[q].by = "system"
                                    => rows[p].rev # rows[q].rev
    /\ \A p, q \in 1 .. Len(rows) : p # q /\ rows[p].born = rows[q].born
                                    => rows[p].items \cap rows[q].items = {}
    /\ Len(rows) # 0 => \E q \in 1 .. Len(rows) : \A p \in 1 .. Len(rows) : rows[p].rev <= rows[q].rev

\* What a handler has read and may still count on when it writes: the quotes it
\* is about are there, and so are the lines a split is to move, though another
\* split may have put them on another quote.
Sound(r) ==
    /\ r.op \in {"persist", "store"} /\ r.origin # None =>
          r.origin \in 1 .. Len(quotes) /\ quotes[r.origin].origin = None
    /\ r.op \in {"configure", "requantify"} =>
          r.quote \in 1 .. Len(quotes) /\ r.row.rev \in 1 .. Len(quotes)
    /\ r.op = "accept" => r.quote \in 1 .. Len(quotes)
    /\ r.op = "split" =>
          /\ r.quote \in 1 .. Len(quotes)
          /\ \A f \in r.group : \E p \in 1 .. Len(quotes) :
                quotes[p].born = quotes[r.quote].born /\ f \in quotes[p].items

QuoteInv ==
    /\ Kinds /\ WellKept(quotes) /\ Len(quotes) <= MaxQuotes
    /\ \A s \in Slots : Sound(run[s])

\* Every job beyond a file's first was asked for, by a switch or by the queue.
Switching == {s \in Slots : run[s].op = "switch"}
Busy == {s \in Slots : run[s] # Idle}
Counted ==
    /\ Cardinality(Busy) <= MaxInFlight
    /\ Cardinality(Switching) <= asked
    /\ \A f \in Files, t \in Technologies : jobs[f][t] + Cardinality(Switching) <= 1 + asked

-----------------------------------------------------------------------------
\* What a handler holds, by what it is doing.
LEMMA MemoryKinds ==
  ASSUME NEW m \in Memory
  PROVE  /\ m.op \in {"progress", "answer", "switch"} => m.file \in Files /\ m.tech \in Technologies
         /\ m.op \in {"answer", "switch"} => m.status \in FileStatus /\ m.grams \in BOOLEAN
         /\ m.op \in {"persist", "store"} =>
               m.items \in SUBSET Files /\ m.ok \in BOOLEAN /\ m.origin \in Nat \cup {None}
         /\ m.op \in {"configure", "requantify"} => m.row \in Row
         /\ m.op = "split" => m.group \in SUBSET Files /\ m.kept \in BOOLEAN /\ m.moved \in BOOLEAN
  BY DEF Memory

LEMMA MemoryMade ==
  /\ \A op \in {"idle", "auto", "material", "expire", "purge"} : [op |-> op] \in Memory
  /\ \A f \in Files, t \in Technologies : [op |-> "progress", file |-> f, tech |-> t] \in Memory
  /\ \A op \in {"answer", "switch"}, f \in Files, t \in Technologies, st \in FileStatus, g \in BOOLEAN :
        [op |-> op, file |-> f, tech |-> t, status |-> st, grams |-> g] \in Memory
  /\ \A op \in {"persist", "store"}, fs \in SUBSET Files, ok \in BOOLEAN, o \in Nat \cup {None} :
        [op |-> op, items |-> fs, ok |-> ok, origin |-> o] \in Memory
  /\ \A op \in {"configure", "requantify"}, q \in Nat, row \in Row, fs \in SUBSET Files :
        [op |-> op, quote |-> q, row |-> row, refs |-> fs] \in Memory
  /\ \A q \in Nat : [op |-> "accept", quote |-> q] \in Memory
  /\ \A q \in Nat, g \in SUBSET Files, k \in BOOLEAN, m \in BOOLEAN :
        [op |-> "split", quote |-> q, group |-> g, kept |-> k, moved |-> m] \in Memory
  <1>1. \A op \in {"idle", "auto", "material", "expire", "purge"} : [op |-> op] \in Memory
    BY DEF Memory
  <1>2. \A f \in Files, t \in Technologies : [op |-> "progress", file |-> f, tech |-> t] \in Memory
    BY DEF Memory
  <1>3. \A op \in {"answer", "switch"}, f \in Files, t \in Technologies, st \in FileStatus, g \in BOOLEAN :
          [op |-> op, file |-> f, tech |-> t, status |-> st, grams |-> g] \in Memory
    BY DEF Memory
  <1>4. \A op \in {"persist", "store"}, fs \in SUBSET Files, ok \in BOOLEAN, o \in Nat \cup {None} :
          [op |-> op, items |-> fs, ok |-> ok, origin |-> o] \in Memory
    BY DEF Memory
  <1>5. \A op \in {"configure", "requantify"}, q \in Nat, row \in Row, fs \in SUBSET Files :
          [op |-> op, quote |-> q, row |-> row, refs |-> fs] \in Memory
    BY DEF Memory
  <1>6. \A q \in Nat : [op |-> "accept", quote |-> q] \in Memory
    BY DEF Memory
  <1>7. \A q \in Nat, g \in SUBSET Files, k \in BOOLEAN, m \in BOOLEAN :
          [op |-> "split", quote |-> q, group |-> g, kept |-> k, moved |-> m] \in Memory
    BY DEF Memory
  <1>. QED
    BY <1>1, <1>2, <1>3, <1>4, <1>5, <1>6, <1>7

\* The quotes of the specification's names.
LEMMA Names ==
  ASSUME QuoteInv
  PROVE  /\ Ids = 1 .. Len(quotes) /\ Len(quotes) \in Nat
         /\ \A q \in Ids : quotes[q] \in Row
         /\ \A q \in Ids : Root(q) \in Ids /\ quotes[Root(q)].origin = None
  <1>1. quotes \in Seq(Row)
    BY DEF QuoteInv, WellKept
  <1>2. Ids = 1 .. Len(quotes) /\ Len(quotes) \in Nat
    BY <1>1, LenProperties DEF Ids
  <1>3. \A q \in Ids : quotes[q] \in Row
    BY <1>1, <1>2
  <1>4. \A q \in Ids : Root(q) \in Ids /\ quotes[Root(q)].origin = None
    BY <1>2 DEF QuoteInv, WellKept, Root
  <1>. QED
    BY <1>2, <1>3, <1>4

-----------------------------------------------------------------------------
(***************************************************************************)
(* Rows of quotes.                                                         *)
(***************************************************************************)

\* A row is added.
LEMMA AppendKept ==
  ASSUME NEW rows, WellKept(rows), NEW row \in Row,
         row.rev \in 1 .. Len(rows) + 1, row.born \in 1 .. Len(rows) + 1,
         row.origin # None => row.origin \in 1 .. Len(rows) /\ rows[row.origin].origin = None,
         \A p \in 1 .. Len(rows) : rows[p].born = row.born => rows[p].items \cap row.items = {},
         row.by = "system" => \A p \in 1 .. Len(rows) : rows[p].rev < row.rev
  PROVE  /\ WellKept(Append(rows, row))
         /\ Len(Append(rows, row)) = Len(rows) + 1
         /\ \A q \in 1 .. Len(rows) : Append(rows, row)[q] = rows[q]
  <1>. DEFINE now == Append(rows, row)
              n == Len(rows)
  <1>1. rows \in Seq(Row) /\ n \in Nat
    BY LenProperties DEF WellKept
  <1>2. /\ now \in Seq(Row) /\ Len(now) = n + 1
        /\ \A q \in 1 .. n : now[q] = rows[q]
        /\ now[n + 1] = row
    BY <1>1, AppendProperties
  <1>3. \A q \in 1 .. n : rows[q] \in Row
    BY <1>1
  <1>. HIDE DEF now, n
  <1>4. \A q \in 1 .. n + 1 :
          /\ now[q].rev \in 1 .. n + 1 /\ now[q].born \in 1 .. n + 1
          /\ now[q].origin # None => now[q].origin \in 1 .. n + 1 /\ now[now[q].origin].origin = None
    <2>1. \A q \in 1 .. n :
            /\ now[q].rev \in 1 .. n + 1 /\ now[q].born \in 1 .. n + 1
            /\ now[q].origin # None => now[q].origin \in 1 .. n + 1 /\ now[now[q].origin].origin = None
      <3>. SUFFICES ASSUME NEW q \in 1 .. n
                    PROVE  /\ now[q].rev \in 1 .. n + 1 /\ now[q].born \in 1 .. n + 1
                           /\ now[q].origin # None =>
                                 now[q].origin \in 1 .. n + 1 /\ now[now[q].origin].origin = None
        OBVIOUS
      <3>1. /\ rows[q].rev \in 1 .. n /\ rows[q].born \in 1 .. n
            /\ rows[q].origin # None => rows[q].origin \in 1 .. n /\ rows[rows[q].origin].origin = None
        BY DEF WellKept, n
      <3>2. now[q] = rows[q] /\ (rows[q].origin \in 1 .. n => now[rows[q].origin] = rows[rows[q].origin])
        BY <1>2
      <3>3. \A i \in 1 .. n : i \in 1 .. n + 1
        BY <1>1
      <3>. QED
        BY <3>1, <3>2, <3>3
    <2>2. /\ now[n + 1].rev \in 1 .. n + 1 /\ now[n + 1].born \in 1 .. n + 1
          /\ now[n + 1].origin # None =>
                now[n + 1].origin \in 1 .. n + 1 /\ now[now[n + 1].origin].origin = None
      BY <1>1, <1>2 DEF n
    <2>3. \A q \in 1 .. n + 1 : q \in 1 .. n \/ q = n + 1
      BY <1>1
    <2>. QED
      BY <2>1, <2>2, <2>3
  <1>5. \A p, q \in 1 .. n + 1 : p # q /\ now[p].by = "system" /\ now[q].by = "system"
                                 => now[p].rev # now[q].rev
    <2>1. \A p, q \in 1 .. n : p # q /\ now[p].by = "system" /\ now[q].by = "system"
                               => now[p].rev # now[q].rev
      BY <1>2 DEF WellKept, n
    <2>2. \A p \in 1 .. n : now[n + 1].by = "system" => now[p].rev < now[n + 1].rev
      BY <1>2 DEF n
    <2>3. \A q \in 1 .. n + 1 : now[q].rev \in Nat /\ (q \in 1 .. n \/ q = n + 1)
      BY <1>1, <1>4
    <2>. QED
      BY <2>1, <2>2, <2>3
  <1>6. \E q \in 1 .. n + 1 : \A p \in 1 .. n + 1 : now[p].rev <= now[q].rev
    <2>0. \A q \in 1 .. n + 1 : now[q].rev \in Nat /\ (q \in 1 .. n \/ q = n + 1)
      BY <1>1, <1>4
    <2>1. n + 1 \in 1 .. n + 1
      BY <1>1
    <2>2. CASE n = 0
      BY <1>1, <2>0, <2>1, <2>2
    <2>3. CASE n # 0
      <3>1. PICK m \in 1 .. n : \A p \in 1 .. n : now[p].rev <= now[m].rev
        BY <1>2, <2>3 DEF WellKept, n
      <3>2. m \in 1 .. n + 1
        BY <1>1
      <3>3. CASE now[n + 1].rev <= now[m].rev
        BY <2>0, <3>1, <3>2, <3>3
      <3>4. CASE ~(now[n + 1].rev <= now[m].rev)
        <4>1. \A p \in 1 .. n + 1 : now[p].rev <= now[n + 1].rev
          BY <2>0, <2>1, <3>1, <3>2, <3>4
        <4>. QED
          BY <2>1, <4>1
      <3>. QED
        BY <3>3, <3>4
    <2>. QED
      BY <2>2, <2>3
  <1>7. \A p, q \in 1 .. n + 1 : p # q /\ now[p].born = now[q].born
                                 => now[p].items \cap now[q].items = {}
    <2>1. \A p, q \in 1 .. n : p # q /\ now[p].born = now[q].born
                               => now[p].items \cap now[q].items = {}
      BY <1>2 DEF WellKept, n
    <2>2. \A p \in 1 .. n : now[n + 1].born = now[p].born
                            => now[p].items \cap now[n + 1].items = {}
      BY <1>2 DEF n
    <2>3. \A q \in 1 .. n + 1 : q \in 1 .. n \/ q = n + 1
      BY <1>1
    <2>. QED
      BY <2>1, <2>2, <2>3
  <1>8. WellKept(now)
    BY <1>2, <1>4, <1>5, <1>6, <1>7 DEF WellKept
  <1>. QED
    BY <1>2, <1>8 DEF now, n

\* Rows are changed in what does not place them among the others.
LEMMA RewriteKept ==
  ASSUME NEW rows, WellKept(rows), NEW now \in Seq(Row), Len(now) = Len(rows),
         \A q \in 1 .. Len(rows) :
            /\ now[q].origin = rows[q].origin /\ now[q].rev = rows[q].rev
            /\ now[q].by = rows[q].by /\ now[q].born = rows[q].born
            /\ now[q].items \subseteq rows[q].items
  PROVE  WellKept(now)
  <1>. DEFINE n == Len(rows)
  <1>1. n \in Nat /\ rows \in Seq(Row)
    BY LenProperties DEF WellKept
  <1>. HIDE DEF n
  <1>2. \A q \in 1 .. n :
          /\ now[q].rev \in 1 .. n /\ now[q].born \in 1 .. n
          /\ now[q].origin # None => now[q].origin \in 1 .. n /\ now[now[q].origin].origin = None
    BY <1>1 DEF WellKept, n
  <1>3. \A p, q \in 1 .. n : p # q /\ now[p].by = "system" /\ now[q].by = "system"
                             => now[p].rev # now[q].rev
    BY <1>1 DEF WellKept, n
  <1>4. n # 0 => \E q \in 1 .. n : \A p \in 1 .. n : now[p].rev <= now[q].rev
    BY <1>1 DEF WellKept, n
  <1>5. \A p, q \in 1 .. n : p # q /\ now[p].born = now[q].born
                             => now[p].items \cap now[q].items = {}
    <2>1. \A p, q \in 1 .. n : p # q /\ rows[p].born = rows[q].born
                               => rows[p].items \cap rows[q].items = {}
      BY DEF WellKept, n
    <2>2. \A q \in 1 .. n : now[q].born = rows[q].born /\ now[q].items \subseteq rows[q].items
      BY DEF n
    <2>. QED
      BY <2>1, <2>2
  <1>. QED
    BY <1>2, <1>3, <1>4, <1>5 DEF WellKept, n

\* One row is changed.
LEMMA OneRow ==
  ASSUME NEW rows \in Seq(Row), NEW q \in 1 .. Len(rows), NEW row \in Row
  PROVE  /\ [rows EXCEPT ![q] = row] \in Seq(Row)
         /\ Len([rows EXCEPT ![q] = row]) = Len(rows)
         /\ \A p \in 1 .. Len(rows) : [rows EXCEPT ![q] = row][p] = IF p = q THEN row ELSE rows[p]
  BY ExceptSeq

\* The newest quote has the highest revision.
LEMMA NewestIsHighest ==
  ASSUME QuoteInv, Ids # {}
  PROVE  /\ Newest(Ids) \in Ids
         /\ \A p \in Ids : quotes[p].rev <= quotes[Newest(Ids)].rev
  <1>1. \E q \in Ids : \A p \in Ids : quotes[p].rev <= quotes[q].rev
    <2>1. Ids = 1 .. Len(quotes) /\ Len(quotes) \in Nat
      BY Names
    <2>2. Len(quotes) # 0
      BY <2>1
    <2>. QED
      BY <2>1, <2>2 DEF QuoteInv, WellKept
  <1>. QED
    BY <1>1, Zenon DEF Newest

-----------------------------------------------------------------------------
(***************************************************************************)
(* Steps of handlers.                                                      *)
(***************************************************************************)

\* What quotes keep while others look: their place among the revisions, and their
\* lines among those that were first written with them.
Keeps ==
    /\ Len(quotes) <= Len(quotes')
    /\ \A q \in 1 .. Len(quotes) :
        /\ quotes'[q].origin = quotes[q].origin /\ quotes'[q].born = quotes[q].born
        /\ \A f \in quotes[q].items : \E p \in 1 .. Len(quotes') :
              quotes'[p].born = quotes[q].born /\ f \in quotes'[p].items

\* A step of one handler, whatever it writes.
LEMMA HandlerStep ==
  ASSUME QuoteInv, NEW s \in Slots, NEW r \in Memory, run' = [run EXCEPT ![s] = r],
         asked' \in 0 .. MaxRequests, FileKinds', WellKept(quotes)', (Len(quotes) <= MaxQuotes)',
         Keeps, Sound(r)'
  PROVE  QuoteInv'
  <1>1. run \in [Slots -> Memory] /\ Len(quotes) \in Nat
    BY Names DEF QuoteInv, Kinds
  <1>2. /\ run' \in [Slots -> Memory] /\ run'[s] = r
        /\ \A t \in Slots : t # s => run'[t] = run[t]
    BY <1>1
  <1>3. Len(quotes') \in Nat
    BY LenProperties DEF WellKept
  <1>4. ASSUME NEW t \in Slots, t # s PROVE Sound(run[t])'
    <2>. DEFINE m == run[t]
    <2>1. run'[t] = m /\ Sound(m)
      BY <1>2, <1>4 DEF QuoteInv
    <2>2. \A q \in 1 .. Len(quotes) : q \in 1 .. Len(quotes')
      BY <1>1, <1>3 DEF Keeps
    <2>. HIDE DEF m
    <2>3. m.op \in {"persist", "store"} /\ m.origin # None =>
            m.origin \in 1 .. Len(quotes') /\ quotes'[m.origin].origin = None
      BY <2>1, <2>2 DEF Sound, Keeps
    <2>4. m.op \in {"configure", "requantify"} =>
            m.quote \in 1 .. Len(quotes') /\ m.row.rev \in 1 .. Len(quotes')
      BY <2>1, <2>2 DEF Sound
    <2>5. m.op = "accept" => m.quote \in 1 .. Len(quotes')
      BY <2>1, <2>2 DEF Sound
    <2>6. ASSUME m.op = "split"
          PROVE  /\ m.quote \in 1 .. Len(quotes')
                 /\ \A f \in m.group : \E p \in 1 .. Len(quotes') :
                       quotes'[p].born = quotes'[m.quote].born /\ f \in quotes'[p].items
      <3>1. m.quote \in 1 .. Len(quotes) /\ quotes'[m.quote].born = quotes[m.quote].born
        BY <2>1, <2>6 DEF Sound, Keeps
      <3>2. ASSUME NEW f \in m.group
            PROVE  \E p \in 1 .. Len(quotes') :
                      quotes'[p].born = quotes[m.quote].born /\ f \in quotes'[p].items
        <4>1. PICK p \in 1 .. Len(quotes) :
                 quotes[p].born = quotes[m.quote].born /\ f \in quotes[p].items
          BY <2>1, <2>6, <3>2 DEF Sound
        <4>. QED
          BY <4>1 DEF Keeps
      <3>. QED
        BY <2>2, <3>1, <3>2
    <2>7. Sound(m)'
      BY <2>1, <2>3, <2>4, <2>5, <2>6 DEF Sound, m
    <2>. QED
      BY <2>7 DEF m
  <1>5. \A t \in Slots : Sound(run[t])'
    BY <1>2, <1>4 DEF Sound
  <1>. QED
    BY <1>2, <1>5 DEF QuoteInv, Kinds

\* One that writes no quotes.
LEMMA QuietStep ==
  ASSUME QuoteInv, NEW s \in Slots, NEW r \in Memory, run' = [run EXCEPT ![s] = r],
         asked' \in 0 .. MaxRequests, FileKinds', UNCHANGED quotes,
         Sound(r)
  PROVE  QuoteInv'
  <1>1. WellKept(quotes)' /\ (Len(quotes) <= MaxQuotes)' /\ Sound(r)'
    BY DEF QuoteInv, WellKept, Sound
  <1>2. Keeps
    BY Names DEF Keeps
  <1>. QED
    BY <1>1, <1>2, HandlerStep

\* Of what needs no care: a handler that is about files, or done.
Careless == {"idle", "auto", "material", "expire", "purge", "progress", "answer", "switch"}

LEMMA CarelessSound ==
  ASSUME QuoteInv, NEW s \in Slots, NEW r \in Memory, r.op \in Careless
  PROVE  Sound(r)
  BY DEF Careless, Sound

\* A handler that ends.
LEMMA EndsWell ==
  ASSUME QuoteInv, NEW s \in Slots, Ends(s), FileKinds', WellKept(quotes)',
         (Len(quotes) <= MaxQuotes)', Keeps
  PROVE  QuoteInv'
  <1>1. Idle \in Memory /\ Idle.op = "idle"
    BY MemoryMade DEF Idle
  <1>2. Sound(Idle)'
    BY <1>1 DEF Sound
  <1>3. run' = [run EXCEPT ![s] = Idle] /\ asked' \in 0 .. MaxRequests
    BY DEF Ends, QuoteInv, Kinds
  <1>. QED
    BY <1>1, <1>2, <1>3, HandlerStep

LEMMA EndsQuietly ==
  ASSUME QuoteInv, NEW s \in Slots, Ends(s), FileKinds', UNCHANGED quotes
  PROVE  QuoteInv'
  <1>1. Idle \in Memory /\ Idle.op \in Careless
    BY MemoryMade DEF Idle, Careless
  <1>2. Sound(Idle)
    BY <1>1, CarelessSound
  <1>3. run' = [run EXCEPT ![s] = Idle] /\ asked' \in 0 .. MaxRequests
    BY DEF Ends, QuoteInv, Kinds
  <1>. QED
    BY <1>1, <1>2, <1>3, QuietStep

\* No handler moves and no quote changes.
LEMMA NoHandler ==
  ASSUME QuoteInv, UNCHANGED <<quotes, run>>, asked' \in 0 .. MaxRequests, FileKinds'
  PROVE  QuoteInv'
  BY DEF QuoteInv, Kinds, WellKept, Sound

\* Beginning and going on.
LEMMA Moves ==
  ASSUME QuoteInv, NEW s \in Slots, NEW r
  PROVE  /\ Begin(s, r) => run' = [run EXCEPT ![s] = r] /\ asked' \in 0 .. MaxRequests
         /\ Continue(s, r) => run' = [run EXCEPT ![s] = r] /\ asked' \in 0 .. MaxRequests
  BY QuotingAssumption DEF Begin, Continue, QuoteInv, Kinds

\* A handler that goes on to, or begins, something that needs no care.
LEMMA CarelessStep ==
  ASSUME QuoteInv, NEW s \in Slots, NEW r \in Memory, r.op \in Careless,
         Begin(s, r) \/ Continue(s, r), FileKinds', UNCHANGED quotes
  PROVE  QuoteInv'
  <1>1. run' = [run EXCEPT ![s] = r] /\ asked' \in 0 .. MaxRequests
    BY Moves
  <1>2. Sound(r)
    BY CarelessSound
  <1>. QED
    BY <1>1, <1>2, QuietStep

-----------------------------------------------------------------------------
(***************************************************************************)
(* Files, and the callbacks about them.                                    *)
(***************************************************************************)

\* The project's step that no handler takes.
LEMMA AloneQuote ==
  ASSUME QuoteInv,
         \/ \E f \in Files : Upload(f) \/ \E t \in Technologies : Redeliver(f, t)
         \/ \E q \in Ids : Checkout(q)
         \/ StartProduction
  PROVE  QuoteInv' /\ UNCHANGED quotes
  <1>1. /\ project \in {"draft", "expired"} /\ bought \in {"none", "session", "making"}
        /\ file \in [Files -> FileRow] /\ jobs \in [Files -> [Technologies -> Nat]]
        /\ asked \in 0 .. MaxRequests /\ MaxRequests \in Nat
    BY QuotingAssumption DEF QuoteInv, Kinds, FileKinds
  <1>2. ASSUME NEW f \in Files, Upload(f) PROVE QuoteInv' /\ UNCHANGED quotes
    <2>1. /\ file' = [file EXCEPT ![f].status = "pending"] /\ jobs' = [jobs EXCEPT ![f]["fdm"] = 1]
          /\ UNCHANGED <<project, quotes, bought, run, asked>>
      BY <1>2 DEF Upload
    <2>2. file' \in [Files -> FileRow]
      BY <1>1, <2>1 DEF FileRow, FileStatus
    <2>3. jobs' \in [Files -> [Technologies -> Nat]]
      BY <1>1, <2>1 DEF Technologies
    <2>. QED
      BY <1>1, <2>1, <2>2, <2>3, NoHandler DEF FileKinds
  <1>3. ASSUME NEW f \in Files, NEW t \in Technologies, Redeliver(f, t)
        PROVE  QuoteInv' /\ UNCHANGED quotes
    <2>1. /\ jobs' = [jobs EXCEPT ![f][t] = @ + 1] /\ asked < MaxRequests /\ asked' = asked + 1
          /\ UNCHANGED <<project, file, quotes, bought, run>>
      BY <1>3 DEF Redeliver
    <2>2. jobs' \in [Files -> [Technologies -> Nat]]
      BY <1>1, <2>1
    <2>3. asked' \in 0 .. MaxRequests
      BY <1>1, <2>1
    <2>. QED
      BY <1>1, <2>1, <2>2, <2>3, NoHandler DEF FileKinds
  <1>4. ASSUME NEW q \in Ids, Checkout(q) PROVE QuoteInv' /\ UNCHANGED quotes
    BY <1>1, <1>4, NoHandler DEF Checkout, FileKinds
  <1>5. CASE StartProduction
    BY <1>1, <1>5, NoHandler DEF StartProduction, FileKinds
  <1>. QED
    BY <1>2, <1>3, <1>4, <1>5

\* A callback of the slicer.
LEMMA CallbackQuote ==
  ASSUME QuoteInv, NEW s \in Slots, NEW f \in Files, NEW t \in Technologies,
         ProgressRead(s, f, t) \/ AnswerRead(s, f, t)
  PROVE  QuoteInv' /\ UNCHANGED quotes
  <1>1. /\ FileKinds /\ file \in [Files -> FileRow] /\ jobs \in [Files -> [Technologies -> Nat]]
        /\ file[f].status \in FileStatus /\ file[f].grams \in BOOLEAN /\ asked \in 0 .. MaxRequests
    BY DEF QuoteInv, Kinds, FileKinds, FileRow
  <1>2. CASE ProgressRead(s, f, t)
    <2>. DEFINE r == [op |-> "progress", file |-> f, tech |-> t]
    <2>1. r \in Memory /\ r.op \in Careless
      BY MemoryMade DEF Careless
    <2>2. Begin(s, r) /\ UNCHANGED <<project, file, jobs, quotes, bought>>
      BY <1>2 DEF ProgressRead
    <2>3. FileKinds'
      BY <1>1, <2>2 DEF FileKinds
    <2>. HIDE DEF r
    <2>. QED
      BY <2>1, <2>2, <2>3, CarelessStep
  <1>3. CASE AnswerRead(s, f, t)
    <2>. DEFINE r == [op |-> "answer", file |-> f, tech |-> t, status |-> file[f].status,
                      grams |-> file[f].grams]
    <2>1. r \in Memory /\ r.op \in Careless
      BY <1>1, MemoryMade DEF Careless
    <2>2. /\ jobs[f][t] > Reporting(f, t) /\ jobs' = [jobs EXCEPT ![f][t] = @ - 1]
          /\ UNCHANGED <<project, file, quotes, bought>>
          /\ Begin(s, r) \/ UNCHANGED <<run, asked>>
      BY <1>3 DEF AnswerRead
    <2>3. Reporting(f, t) \in Nat
      <3>1. IsFiniteSet({u \in Slots : run[u].op = "progress" /\ run[u].file = f /\ run[u].tech = t})
        BY QuotingAssumption, FS_Subset
      <3>. QED
        BY <3>1, FS_CardinalityType DEF Reporting
    <2>4. jobs' \in [Files -> [Technologies -> Nat]]
      <3>1. jobs[f][t] \in Nat /\ jobs[f][t] - 1 \in Nat
        BY <1>1, <2>2, <2>3
      <3>. QED
        BY <1>1, <2>2, <3>1
    <2>5. FileKinds'
      BY <1>1, <2>2, <2>4 DEF FileKinds
    <2>. HIDE DEF r
    <2>6. CASE Begin(s, r)
      BY <2>1, <2>2, <2>5, <2>6, CarelessStep
    <2>7. CASE UNCHANGED <<run, asked>>
      BY <1>1, <2>2, <2>5, <2>7, NoHandler
    <2>. QED
      BY <2>2, <2>6, <2>7
  <1>. QED
    BY <1>2, <1>3

\* What the slicer told is saved, and a purge.
LEMMA FileSaveQuote ==
  ASSUME QuoteInv, NEW s \in Slots,
         \/ ProgressSave(s) \/ PurgeSave(s)
         \/ \E o \in {"completed", "failed"} : AnswerSave(s, o)
  PROVE  QuoteInv' /\ UNCHANGED quotes
  <1>1. /\ FileKinds /\ file \in [Files -> FileRow] /\ run[s] \in Memory
        /\ \A f \in Files : file[f] \in FileRow
    BY DEF QuoteInv, Kinds, FileKinds
  <1>2. CASE ProgressSave(s)
    <2>. DEFINE f == run[s].file
    <2>1. f \in Files
      BY <1>1, <1>2, MemoryKinds DEF ProgressSave
    <2>2. /\ UNCHANGED file \/ file' = [file EXCEPT ![f].status = "processing"]
          /\ Ends(s) /\ UNCHANGED <<project, jobs, quotes, bought>>
      BY <1>2 DEF ProgressSave
    <2>. HIDE DEF f
    <2>3. file' \in [Files -> FileRow]
      BY <1>1, <2>1, <2>2 DEF FileRow, FileStatus
    <2>. QED
      BY <1>1, <2>2, <2>3, EndsQuietly DEF FileKinds
  <1>3. CASE PurgeSave(s)
    <2>1. /\ file' = [f \in Files |-> IF Exists(f) THEN [file[f] EXCEPT !.status = "purged"] ELSE file[f]]
          /\ Ends(s) /\ UNCHANGED <<project, jobs, quotes, bought>>
      BY <1>3 DEF PurgeSave
    <2>2. \A f \in Files : [file[f] EXCEPT !.status = "purged"] \in FileRow
      BY <1>1 DEF FileRow, FileStatus
    <2>3. file' \in [Files -> FileRow]
      BY <1>1, <2>1, <2>2
    <2>. QED
      BY <1>1, <2>1, <2>3, EndsQuietly DEF FileKinds
  <1>4. ASSUME NEW o \in {"completed", "failed"}, AnswerSave(s, o)
        PROVE  QuoteInv' /\ UNCHANGED quotes
    <2>. DEFINE f == run[s].file
    <2>1. f \in Files
      BY <1>1, <1>4, MemoryKinds DEF AnswerSave
    <2>2. /\ Continue(s, [op |-> "auto"]) /\ UNCHANGED <<project, jobs, quotes, bought>>
          /\ \/ UNCHANGED file
             \/ \E st \in FileStatus, g \in BOOLEAN :
                   file' = [file EXCEPT ![f] = [file[f] EXCEPT !.status = st, !.grams = g]]
      <3>1. /\ Continue(s, [op |-> "auto"]) /\ UNCHANGED <<project, jobs, quotes, bought>>
        BY <1>4 DEF AnswerSave
      <3>2. CASE ~Exists(f)
        BY <1>4, <3>2 DEF AnswerSave
      <3>3. CASE Exists(f)
        <4>. DEFINE st == IF o = run[s].status THEN file[f].status ELSE o
                    told == o = "completed" /\ run[s].tech = "fdm" /\ ~run[s].grams
                    g == file[f].grams \/ told
        <4>1. file' = [file EXCEPT ![f].status = st, ![f].grams = g]
          BY <1>4, <3>3 DEF AnswerSave
        <4>2. st \in FileStatus
          BY <1>1, <2>1 DEF FileRow, FileStatus
        <4>3. g \in BOOLEAN
          BY <1>1, <2>1 DEF FileRow
        <4>. HIDE DEF st, g
        <4>4. file' = [file EXCEPT ![f] = [file[f] EXCEPT !.status = st, !.grams = g]]
          BY <1>1, <2>1, <4>1
        <4>. QED
          BY <3>1, <4>2, <4>3, <4>4
      <3>. QED
        BY <3>1, <3>2, <3>3
    <2>. HIDE DEF f
    <2>3. \A st \in FileStatus, g \in BOOLEAN : [file[f] EXCEPT !.status = st, !.grams = g] \in FileRow
      BY <1>1, <2>1 DEF FileRow
    <2>4. file' \in [Files -> FileRow]
      BY <1>1, <2>1, <2>2, <2>3
    <2>5. FileKinds'
      BY <1>1, <2>2, <2>4 DEF FileKinds
    <2>6. [op |-> "auto"] \in Memory /\ [op |-> "auto"].op \in Careless
      BY MemoryMade DEF Careless
    <2>. QED
      BY <2>2, <2>5, <2>6, CarelessStep
  <1>. QED
    BY <1>2, <1>3, <1>4

\* A change of technology or material, a listing by a job.
LEMMA PartQuote ==
  ASSUME QuoteInv, NEW s \in Slots,
         \/ \E f \in Files, staff \in BOOLEAN :
               \/ \E t \in Technologies : SwitchRead(s, f, t, staff)
               \/ MaterialRead(s, f, staff)
         \/ SwitchSave(s) \/ MaterialSave(s) \/ ExpireRead(s) \/ PurgeRead(s)
  PROVE  QuoteInv' /\ UNCHANGED quotes
  <1>1. /\ FileKinds /\ file \in [Files -> FileRow] /\ jobs \in [Files -> [Technologies -> Nat]]
        /\ run[s] \in Memory /\ \A f \in Files : file[f] \in FileRow
    BY DEF QuoteInv, Kinds, FileKinds
  <1>2. ASSUME NEW f \in Files, NEW t \in Technologies, NEW staff \in BOOLEAN,
               SwitchRead(s, f, t, staff)
        PROVE  QuoteInv' /\ UNCHANGED quotes
    <2>. DEFINE r == [op |-> "switch", file |-> f, tech |-> t,
                      status |-> file[f].status, grams |-> file[f].grams]
    <2>1. r \in Memory /\ r.op \in Careless
      BY <1>1, MemoryMade DEF Careless, FileRow
    <2>2. Begin(s, r) /\ UNCHANGED <<project, file, jobs, quotes, bought>>
      BY <1>2 DEF SwitchRead
    <2>3. FileKinds'
      BY <1>1, <2>2 DEF FileKinds
    <2>. HIDE DEF r
    <2>. QED
      BY <2>1, <2>2, <2>3, CarelessStep
  <1>3. CASE \/ \E f \in Files, staff \in BOOLEAN : MaterialRead(s, f, staff)
             \/ MaterialSave(s) \/ ExpireRead(s) \/ PurgeRead(s)
    <2>1. PICK op \in {"auto", "material", "expire", "purge"} :
             Begin(s, [op |-> op]) \/ Continue(s, [op |-> op])
      BY <1>3 DEF MaterialRead, MaterialSave, ExpireRead, PurgeRead
    <2>2. UNCHANGED <<project, file, jobs, quotes, bought>>
      BY <1>3 DEF MaterialRead, MaterialSave, ExpireRead, PurgeRead
    <2>3. [op |-> op] \in Memory /\ [op |-> op].op \in Careless
      BY MemoryMade DEF Careless
    <2>4. FileKinds'
      BY <1>1, <2>2 DEF FileKinds
    <2>. QED
      BY <2>1, <2>2, <2>3, <2>4, CarelessStep
  <1>4. CASE SwitchSave(s)
    <2>. DEFINE f == run[s].file
                t == run[s].tech
    <2>1. f \in Files /\ t \in Technologies
      BY <1>1, <1>4, MemoryKinds DEF SwitchSave
    <2>2. Ends(s) /\ UNCHANGED <<project, quotes, bought>>
      BY <1>4 DEF SwitchSave
    <2>3. CASE UNCHANGED <<file, jobs>>
      BY <1>1, <2>2, <2>3, EndsQuietly DEF FileKinds
    <2>4. CASE Exists(f)
      <3>. DEFINE st == IF run[s].status = "pending" THEN file[f].status ELSE "pending"
                  g == IF run[s].grams THEN FALSE ELSE file[f].grams
      <3>1. /\ file' = [file EXCEPT ![f].tech = t, ![f].status = st, ![f].grams = g]
            /\ jobs' = [jobs EXCEPT ![f][t] = @ + 1]
        BY <1>4, <2>4 DEF SwitchSave
      <3>2. st \in FileStatus
        BY <1>1, <2>1 DEF FileRow, FileStatus
      <3>3. g \in BOOLEAN
        BY <1>1, <2>1 DEF FileRow
      <3>. HIDE DEF st, g, f, t
      <3>4. [file[f] EXCEPT !.tech = t, !.status = st, !.grams = g] \in FileRow
        BY <1>1, <2>1, <3>2, <3>3 DEF FileRow
      <3>5. file' \in [Files -> FileRow]
        BY <1>1, <2>1, <3>1, <3>4
      <3>6. jobs' \in [Files -> [Technologies -> Nat]]
        BY <1>1, <2>1, <3>1
      <3>. QED
        BY <1>1, <2>2, <3>5, <3>6, EndsQuietly DEF FileKinds
    <2>. QED
      BY <1>4, <2>3, <2>4 DEF SwitchSave
  <1>. QED
    BY <1>2, <1>3, <1>4

-----------------------------------------------------------------------------
(***************************************************************************)
(* Reading and writing quotes.                                             *)
(***************************************************************************)

\* What was accepted stays as it is, unless an overtaken split writes.
Frozen ==
    \A q \in Ids : quotes[q].status = "accepted" /\ quotes'[q] # quotes[q]
                  => \E s \in Slots : Overtaken(s) /\ run'[s] = Idle

\* A handler that reads quotes, to write one later.
LEMMA ReadQuote ==
  ASSUME QuoteInv, NEW s \in Slots,
         \/ AutoQuote(s)
         \/ \E fs \in SUBSET Files : StoreRead(s, fs)
         \/ \E q \in Ids : Configure(s, q) \/ Requantify(s, q) \/ AcceptRead(s, q)
         \/ \E q \in Ids, group \in SUBSET Files : SplitRead(s, q, group)
  PROVE  QuoteInv' /\ UNCHANGED quotes
  <1>1. /\ FileKinds /\ Ids = 1 .. Len(quotes) /\ Len(quotes) \in Nat
        /\ \A q \in Ids : quotes[q] \in Row /\ q \in Nat
    BY Names DEF QuoteInv, Kinds
  <1>2. UNCHANGED <<project, file, jobs, quotes, bought>>
    BY DEF AutoQuote, StoreRead, Configure, Requantify, AcceptRead, SplitRead
  <1>3. FileKinds'
    BY <1>1, <1>2 DEF FileKinds
  <1>4. ASSUME NEW r \in Memory, Begin(s, r) \/ Continue(s, r), Sound(r)
        PROVE  QuoteInv' /\ UNCHANGED quotes
    <2>1. run' = [run EXCEPT ![s] = r] /\ asked' \in 0 .. MaxRequests
      BY <1>4, Moves
    <2>. QED
      BY <1>2, <1>3, <1>4, <2>1, QuietStep
  <1>5. ASSUME NEW op \in {"persist", "store"}, NEW items \in SUBSET Files, NEW ok \in BOOLEAN, NEW origin \in Ids \cup {None},
               origin # None => quotes[origin].origin = None,
               LET r == [op |-> op, items |-> items, ok |-> ok, origin |-> origin]
               IN  Begin(s, r) \/ Continue(s, r)
        PROVE  QuoteInv' /\ UNCHANGED quotes
    <2>. DEFINE r == [op |-> op, items |-> items, ok |-> ok, origin |-> origin]
    <2>1. r \in Memory
      BY <1>1, MemoryMade
    <2>2. Sound(r)
      BY <1>1, <1>5 DEF Sound
    <2>3. Begin(s, r) \/ Continue(s, r)
      BY <1>5
    <2>. HIDE DEF r
    <2>. QED
      BY <1>4, <2>1, <2>2, <2>3
  <1>6. CASE AutoQuote(s)
    <2>1. CASE Ends(s)
      BY <1>2, <1>3, <2>1, EndsQuietly
    <2>2. CASE ~Ends(s)
      <3>. DEFINE items == {f \in Files : Priceable(f)}
                  origin == IF LiveRoots = {} THEN None ELSE CHOOSE q \in LiveRoots : TRUE
      <3>1. PICK ok \in BOOLEAN :
               Continue(s, [op |-> "persist", items |-> items, ok |-> ok, origin |-> origin])
        BY <1>6, <2>2 DEF AutoQuote
      <3>2. \A q \in LiveRoots : q \in Ids /\ quotes[q].origin = None
        BY Names DEF LiveRoots
      <3>3. origin \in Ids \cup {None} /\ (origin # None => quotes[origin].origin = None)
        BY <3>2
      <3>4. items \in SUBSET Files
        OBVIOUS
      <3>. HIDE DEF items, origin
      <3>5. "persist" \in {"persist", "store"}
        OBVIOUS
      <3>. QED
        BY <1>5, <3>1, <3>3, <3>4, <3>5
    <2>. QED
      BY <2>1, <2>2
  <1>7. ASSUME NEW fs \in SUBSET Files, StoreRead(s, fs)
        PROVE  QuoteInv' /\ UNCHANGED quotes
    <2>1. \E ok \in BOOLEAN :
             Begin(s, [op |-> "store", items |-> fs, ok |-> ok, origin |-> None])
      BY <1>7 DEF StoreRead
    <2>. QED
      BY <1>5, <2>1
  <1>8. ASSUME NEW q \in Ids, Configure(s, q) \/ Requantify(s, q)
        PROVE  QuoteInv' /\ UNCHANGED quotes
    <2>1. PICK op \in {"configure", "requantify"}, conf \in BOOLEAN : Begin(s, Held(op, q, conf))
      BY <1>1, <1>8 DEF Configure, Requantify, Row
    <2>. DEFINE row == [quotes[q] EXCEPT !.conf = conf]
                r == Held(op, q, conf)
    <2>2. row \in Row /\ row.rev \in 1 .. Len(quotes)
      <3>1. quotes[q] \in Row /\ q \in 1 .. Len(quotes)
        BY <1>1
      <3>2. row \in Row /\ row.rev = quotes[q].rev
        BY <3>1 DEF Row
      <3>3. quotes[q].rev \in 1 .. Len(quotes)
        BY <3>1 DEF QuoteInv, WellKept
      <3>. QED
        BY <3>2, <3>3
    <2>3. Present(quotes[q].items) \in SUBSET Files
      BY <1>1 DEF Present, Row
    <2>4. r \in Memory /\ r.op = op /\ r.quote = q /\ r.row = row
      BY <1>1, <2>2, <2>3, MemoryMade DEF Held
    <2>. HIDE DEF r, row
    <2>5. Sound(r)
      BY <1>1, <2>2, <2>4 DEF Sound
    <2>. QED
      BY <1>4, <2>1, <2>4, <2>5 DEF r
  <1>9. ASSUME NEW q \in Ids, AcceptRead(s, q) PROVE QuoteInv' /\ UNCHANGED quotes
    <2>. DEFINE r == [op |-> "accept", quote |-> q]
    <2>1. r \in Memory /\ r.op = "accept" /\ r.quote = q
      BY <1>1, MemoryMade
    <2>2. Begin(s, r) /\ quotes[q].status = "draft"
      BY <1>9 DEF AcceptRead
    <2>. HIDE DEF r
    <2>3. Sound(r)
      BY <1>1, <2>1, <2>2 DEF Sound
    <2>. QED
      BY <1>4, <2>1, <2>2, <2>3
  <1>10. ASSUME NEW q \in Ids, NEW group \in SUBSET Files, SplitRead(s, q, group)
         PROVE  QuoteInv' /\ UNCHANGED quotes
    <2>1. group \subseteq Present(quotes[q].items)
      BY <1>10 DEF SplitRead
    <2>2. PICK kept \in BOOLEAN, moved \in BOOLEAN :
             Begin(s, [op |-> "split", quote |-> q, group |-> group, kept |-> kept, moved |-> moved])
      BY <1>10 DEF SplitRead
    <2>. DEFINE r == [op |-> "split", quote |-> q, group |-> group, kept |-> kept, moved |-> moved]
    <2>3. r \in Memory /\ r.op = "split" /\ r.quote = q /\ r.group = group /\ Begin(s, r)
      BY <1>1, <2>2, MemoryMade
    <2>. HIDE DEF r
    <2>4. group \subseteq quotes[q].items
      BY <2>1 DEF Present
    <2>5. Sound(r)
      BY <1>1, <2>3, <2>4 DEF Sound
    <2>. QED
      BY <1>4, <2>3, <2>5
  <1>. QED
    BY <1>6, <1>7, <1>8, <1>9, <1>10

\* A handler ends with a row it has added.
LEMMA AddsRow ==
  ASSUME QuoteInv, NEW s \in Slots, Ends(s), UNCHANGED <<project, file, jobs, bought>>,
         Len(quotes) < MaxQuotes, NEW row \in Row, quotes' = Append(quotes, row),
         row.rev \in 1 .. Len(quotes) + 1, row.born = Len(quotes) + 1,
         row.origin # None => row.origin \in Ids /\ quotes[row.origin].origin = None,
         row.by = "system" => \A p \in Ids : quotes[p].rev < row.rev
  PROVE  QuoteInv' /\ Frozen
  <1>1. WellKept(quotes) /\ Ids = 1 .. Len(quotes) /\ Len(quotes) \in Nat /\ FileKinds
    BY Names DEF QuoteInv, Kinds
  <1>2. /\ WellKept(Append(quotes, row)) /\ Len(Append(quotes, row)) = Len(quotes) + 1
        /\ \A q \in 1 .. Len(quotes) : Append(quotes, row)[q] = quotes[q]
    <2>1. row.born \in 1 .. Len(quotes) + 1 /\ \A p \in 1 .. Len(quotes) : quotes[p].born # row.born
      BY <1>1 DEF WellKept
    <2>. QED
      BY <1>1, <2>1, AppendKept
  <1>3. /\ WellKept(quotes') /\ Len(quotes') = Len(quotes) + 1
        /\ \A q \in 1 .. Len(quotes) : quotes'[q] = quotes[q]
    BY <1>2
  <1>4. WellKept(quotes)' /\ FileKinds'
    BY <1>1, <1>3 DEF WellKept, FileKinds
  <1>5. Keeps
    BY <1>1, <1>3 DEF Keeps
  <1>6. (Len(quotes) <= MaxQuotes)'
    BY <1>1, <1>3, QuotingAssumption
  <1>7. Frozen
    BY <1>1, <1>3 DEF Frozen
  <1>. QED
    BY <1>4, <1>5, <1>6, <1>7, EndsWell

\* The system's next revision.
LEMMA PersistKept ==
  ASSUME QuoteInv, NEW s \in Slots, PersistQuote(s)
  PROVE  QuoteInv' /\ Frozen
  <1>. DEFINE r == run[s]
              last == IF Ids = {} THEN 0 ELSE quotes[Newest(Ids)].rev
              row == [origin |-> r.origin, born |-> Len(quotes) + 1, rev |-> last + 1,
                      by |-> "system", conf |-> FALSE,
                      status |-> IF r.ok THEN "draft" ELSE "needs_review", items |-> r.items]
  <1>1. /\ Ids = 1 .. Len(quotes) /\ Len(quotes) \in Nat /\ FileKinds
        /\ r \in Memory /\ Sound(r) /\ r.op \in {"persist", "store"}
        /\ Ends(s) /\ UNCHANGED <<project, file, jobs, bought>>
    BY Names DEF QuoteInv, Kinds, PersistQuote
  <1>2. r.items \in SUBSET Files /\ r.ok \in BOOLEAN /\ r.origin \in Nat \cup {None}
    BY <1>1, MemoryKinds
  <1>3. CASE UNCHANGED quotes
    BY <1>1, <1>3, EndsQuietly DEF FileKinds, Frozen
  <1>4. CASE Len(quotes) < MaxQuotes /\ quotes' = Append(quotes, row)
    <2>1. /\ last \in 0 .. Len(quotes)
          /\ \A p \in Ids : quotes[p].rev \in Nat /\ quotes[p].rev <= last
      <3>1. CASE Ids = {}
        BY <1>1, <3>1
      <3>2. CASE Ids # {}
        <4>1. \A p \in Ids : quotes[p].rev \in 1 .. Len(quotes)
          BY <1>1 DEF QuoteInv, WellKept
        <4>. QED
          BY <1>1, <3>2, <4>1, NewestIsHighest
      <3>. QED
        BY <3>1, <3>2
    <2>. HIDE DEF last, r
    <2>2. row \in Row
      BY <1>1, <1>2, <2>1 DEF Row, QuoteStatus
    <2>3. /\ row.rev \in 1 .. Len(quotes) + 1 /\ row.born = Len(quotes) + 1
          /\ row.origin # None => row.origin \in Ids /\ quotes[row.origin].origin = None
          /\ \A p \in Ids : quotes[p].rev < row.rev
      BY <1>1, <2>1 DEF Sound
    <2>. HIDE DEF row
    <2>. QED
      BY <1>1, <1>4, <2>2, <2>3, AddsRow
  <1>. QED
    BY <1>3, <1>4 DEF PersistQuote, Insert

\* The customer's.
LEMMA ReviseKept ==
  ASSUME QuoteInv, NEW s \in Slots, Revise(s)
  PROVE  QuoteInv' /\ Frozen
  <1>. DEFINE r == run[s]
              row == [r.row EXCEPT !.origin = Root(r.quote), !.born = Len(quotes) + 1, !.rev = @ + 1,
                                   !.by = "customer"]
  <1>1. /\ Ids = 1 .. Len(quotes) /\ Len(quotes) \in Nat /\ FileKinds
        /\ r \in Memory /\ Sound(r) /\ r.op \in {"configure", "requantify"}
        /\ Ends(s) /\ UNCHANGED <<project, file, jobs, bought>>
    BY Names DEF QuoteInv, Kinds, Revise
  <1>2. r.row \in Row /\ r.quote \in Ids /\ r.row.rev \in 1 .. Len(quotes)
    BY <1>1, MemoryKinds DEF Sound
  <1>3. CASE UNCHANGED quotes
    BY <1>1, <1>3, EndsQuietly DEF FileKinds, Frozen
  <1>4. CASE Len(quotes) < MaxQuotes /\ quotes' = Append(quotes, row)
    <2>1. Root(r.quote) \in Ids /\ quotes[Root(r.quote)].origin = None
      BY <1>2, Names
    <2>. HIDE DEF r
    <2>2. row \in Row
      <3>1. \A x \in Row, o \in Nat, b \in Nat, n \in Nat :
              [x EXCEPT !.origin = o, !.born = b, !.rev = n, !.by = "customer"] \in Row
        BY DEF Row
      <3>2. Root(r.quote) \in Nat /\ r.row.rev + 1 \in Nat /\ Len(quotes) + 1 \in Nat
        BY <1>1, <1>2, <2>1
      <3>. QED
        BY <1>2, <3>1, <3>2
    <2>3. /\ row.rev \in 1 .. Len(quotes) + 1 /\ row.born = Len(quotes) + 1 /\ row.by # "system"
          /\ row.origin # None => row.origin \in Ids /\ quotes[row.origin].origin = None
      BY <1>1, <1>2, <2>1 DEF Row
    <2>. HIDE DEF row
    <2>. QED
      BY <1>1, <1>4, <2>2, <2>3, AddsRow
  <1>. QED
    BY <1>3, <1>4 DEF Revise, Insert

\* The acceptance, of a quote that may have been accepted meanwhile.
LEMMA AcceptKept ==
  ASSUME QuoteInv, NEW s \in Slots, AcceptSave(s)
  PROVE  QuoteInv' /\ Frozen
  <1>. DEFINE q == run[s].quote
              row == [quotes[q] EXCEPT !.status = "accepted"]
  <1>1. /\ Ids = 1 .. Len(quotes) /\ Len(quotes) \in Nat /\ FileKinds /\ quotes \in Seq(Row)
        /\ q \in Ids /\ run[s].op = "accept" /\ \A p \in Ids : quotes[p] \in Row
        /\ Ends(s) /\ UNCHANGED <<project, file, jobs, bought>>
    BY Names DEF QuoteInv, Kinds, AcceptSave, Sound, WellKept
  <1>2. quotes' = [quotes EXCEPT ![q] = row]
    BY DEF AcceptSave
  <1>3. row \in Row /\ row.origin = quotes[q].origin /\ row.rev = quotes[q].rev
        /\ row.by = quotes[q].by /\ row.items = quotes[q].items /\ row.born = quotes[q].born
        /\ (quotes[q].status = "accepted" => row = quotes[q])
    BY <1>1 DEF Row, QuoteStatus
  <1>. HIDE DEF row
  <1>4. /\ quotes' \in Seq(Row) /\ Len(quotes') = Len(quotes)
        /\ \A p \in Ids : quotes'[p] = IF p = q THEN row ELSE quotes[p]
    BY <1>1, <1>2, <1>3, OneRow
  <1>5. WellKept(quotes')
    <2>1. \A p \in 1 .. Len(quotes) :
            /\ quotes'[p].origin = quotes[p].origin /\ quotes'[p].rev = quotes[p].rev
            /\ quotes'[p].by = quotes[p].by /\ quotes'[p].born = quotes[p].born
            /\ quotes'[p].items \subseteq quotes[p].items
      BY <1>1, <1>3, <1>4
    <2>. QED
      BY <1>4, <2>1, RewriteKept DEF QuoteInv
  <1>6. WellKept(quotes)' /\ (Len(quotes) <= MaxQuotes)' /\ FileKinds'
    BY <1>1, <1>4, <1>5 DEF WellKept, FileKinds, QuoteInv
  <1>7. Keeps
    BY <1>1, <1>3, <1>4 DEF Keeps
  <1>8. Frozen
    BY <1>1, <1>3, <1>4 DEF Frozen
  <1>. QED
    BY <1>1, <1>6, <1>7, <1>8, EndsWell

\* The split.  It changes an accepted quote only when it has been overtaken: what
\* it moves is on the quote it read, or else it is on another.
LEMMA SplitKept ==
  ASSUME QuoteInv, NEW s \in Slots, SplitSave(s)
  PROVE  QuoteInv' /\ Frozen
  <1>. DEFINE r == run[s]
              q == r.quote
              old == quotes[q]
              trimmed(p) == IF quotes[p].born = old.born
                            THEN [quotes[p] EXCEPT !.items = @ \ r.group] ELSE quotes[p]
              status == IF r.kept THEN "draft" ELSE old.status
              moved == [origin |-> None, born |-> old.born, rev |-> 1, by |-> "split",
                        conf |-> old.conf, status |-> IF r.moved THEN "draft" ELSE "needs_review",
                        items |-> r.group]
              rows == [p \in Ids |-> IF p = q THEN [trimmed(p) EXCEPT !.status = status] ELSE trimmed(p)]
  <1>1. /\ Ids = 1 .. Len(quotes) /\ Len(quotes) \in Nat /\ FileKinds /\ quotes \in Seq(Row)
        /\ r \in Memory /\ r.op = "split" /\ Sound(r) /\ Len(quotes) < MaxQuotes
        /\ Ends(s) /\ UNCHANGED <<project, file, jobs, bought>>
        /\ run \in [Slots -> Memory] /\ \A p \in Ids : quotes[p] \in Row
    BY Names DEF QuoteInv, Kinds, SplitSave, WellKept
  <1>2. q \in Ids /\ old \in Row /\ r.group \in SUBSET Files /\ status \in QuoteStatus
    BY <1>1, Names, MemoryKinds DEF Sound, Row, QuoteStatus
  <1>3. ASSUME NEW p \in Ids
        PROVE  /\ trimmed(p) \in Row /\ [trimmed(p) EXCEPT !.status = status] \in Row
               /\ rows[p] \in Row /\ rows[p].origin = quotes[p].origin /\ rows[p].rev = quotes[p].rev
               /\ rows[p].by = quotes[p].by /\ rows[p].born = quotes[p].born
               /\ rows[p].items = IF quotes[p].born = old.born THEN quotes[p].items \ r.group
                                  ELSE quotes[p].items
               /\ p # q /\ quotes[p].items \cap r.group = {} => rows[p] = quotes[p]
               /\ p # q /\ quotes[p].born # old.born => rows[p] = quotes[p]
    <2>1. quotes[p] \in Row
      BY <1>1
    <2>2. quotes[p].items \cap r.group = {} => [quotes[p] EXCEPT !.items = @ \ r.group] = quotes[p]
      BY <2>1 DEF Row
    <2>. HIDE DEF status
    <2>. QED
      BY <1>2, <2>1, <2>2 DEF Row
  <1>4. /\ moved \in Row /\ moved.rev = 1 /\ moved.origin = None /\ moved.by # "system"
        /\ moved.born = old.born /\ moved.items = r.group
    BY <1>2 DEF Row, QuoteStatus
  <1>5. quotes' = Append(rows, moved)
    <2>. DEFINE first == [p \in Ids |-> trimmed(p)]
    <2>1. quotes' = Append([first EXCEPT ![q].status = IF r.kept THEN "draft" ELSE @], moved)
      BY DEF SplitSave
    <2>2. first[q] = trimmed(q) /\ first[q].status = old.status
      BY <1>2 DEF Row
    <2>3. [first EXCEPT ![q].status = IF r.kept THEN "draft" ELSE @] = rows
      BY <1>2, <2>2
    <2>. QED
      BY <2>1, <2>3
  <1>. HIDE DEF moved, trimmed, status
  <1>6. rows \in Seq(Row) /\ Len(rows) = Len(quotes)
    <2>1. rows \in [1 .. Len(quotes) -> Row]
      BY <1>1, <1>3
    <2>2. rows \in Seq(Row)
      BY <1>1, <2>1, SeqDef, Zenon
    <2>3. Len(rows) \in Nat /\ 1 .. Len(rows) = 1 .. Len(quotes)
      BY <2>1, <2>2, LenProperties
    <2>. QED
      BY <1>1, <2>2, <2>3
  <1>. HIDE DEF rows
  <1>7. WellKept(rows)
    <2>1. \A p \in 1 .. Len(quotes) :
            /\ rows[p].origin = quotes[p].origin /\ rows[p].rev = quotes[p].rev
            /\ rows[p].by = quotes[p].by /\ rows[p].born = quotes[p].born
            /\ rows[p].items \subseteq quotes[p].items
      BY <1>1, <1>3
    <2>. QED
      BY <1>6, <2>1, RewriteKept DEF QuoteInv
  <1>8. /\ WellKept(quotes') /\ Len(quotes') = Len(quotes) + 1
        /\ \A p \in Ids : quotes'[p] = rows[p]
        /\ quotes'[Len(quotes) + 1] = moved
    <2>1. moved.rev \in 1 .. Len(rows) + 1 /\ moved.born \in 1 .. Len(rows) + 1
      BY <1>1, <1>2, <1>4, <1>6 DEF QuoteInv, WellKept
    <2>2. \A p \in 1 .. Len(rows) : rows[p].born = moved.born => rows[p].items \cap moved.items = {}
      <3>1. \A p \in Ids : rows[p].born = old.born => rows[p].items = quotes[p].items \ r.group
        BY <1>3
      <3>. QED
        BY <1>1, <1>4, <1>6, <3>1
    <2>3. /\ WellKept(Append(rows, moved)) /\ Len(Append(rows, moved)) = Len(rows) + 1
          /\ \A p \in 1 .. Len(rows) : Append(rows, moved)[p] = rows[p]
      BY <1>4, <1>7, <2>1, <2>2, AppendKept
    <2>4. Append(rows, moved)[Len(rows) + 1] = moved
      BY <1>4, <1>6, AppendProperties
    <2>. QED
      BY <1>1, <1>5, <1>6, <2>3, <2>4
  <1>9. WellKept(quotes)' /\ (Len(quotes) <= MaxQuotes)' /\ FileKinds'
    <2>1. WellKept(quotes)' /\ FileKinds'
      BY <1>1, <1>8 DEF WellKept, FileKinds
    <2>. QED
      BY <1>1, <1>8, <2>1, QuotingAssumption
  <1>10. Keeps
    <2>1. ASSUME NEW p \in Ids, NEW f \in quotes[p].items
          PROVE  \E t \in 1 .. Len(quotes') : quotes'[t].born = quotes[p].born /\ f \in quotes'[t].items
      <3>0. /\ p \in 1 .. Len(quotes') /\ Len(quotes) + 1 \in 1 .. Len(quotes')
            /\ quotes'[p] = rows[p] /\ rows[p].born = quotes[p].born
            /\ rows[p].items = IF quotes[p].born = old.born THEN quotes[p].items \ r.group
                               ELSE quotes[p].items
        <4>1. p \in 1 .. Len(quotes') /\ Len(quotes) + 1 \in 1 .. Len(quotes')
          BY <1>1, <1>8
        <4>. QED
          BY <1>3, <1>8, <4>1, Zenon
      <3>1. CASE quotes[p].born = old.born /\ f \in r.group
        BY <1>4, <1>8, <3>0, <3>1
      <3>2. CASE ~(quotes[p].born = old.born /\ f \in r.group)
        BY <3>0, <3>2
      <3>. QED
        BY <3>1, <3>2
    <2>2. \A p \in Ids : quotes'[p].origin = quotes[p].origin /\ quotes'[p].born = quotes[p].born
      BY <1>3, <1>8
    <2>. QED
      BY <1>1, <1>8, <2>1, <2>2 DEF Keeps
  <1>11. Frozen
    <2>. SUFFICES ASSUME NEW p \in Ids, quotes[p].status = "accepted", quotes'[p] # quotes[p]
                  PROVE  Overtaken(s) /\ run'[s] = Idle
      BY DEF Frozen
    <2>1. run'[s] = Idle
      BY <1>1 DEF Ends
    <2>2. CASE p = q
      BY <1>1, <2>1, <2>2 DEF Overtaken
    <2>3. CASE p # q
      <3>1. quotes[p].born = old.born /\ quotes[p].items \cap r.group # {}
        BY <1>3, <1>8, <2>3
      <3>2. quotes[p].items \cap old.items = {}
        BY <1>1, <1>2, <2>3, <3>1 DEF QuoteInv, WellKept
      <3>3. ~(r.group \subseteq old.items)
        BY <3>1, <3>2
      <3>. QED
        BY <1>1, <2>1, <3>3 DEF Overtaken
    <2>. QED
      BY <2>2, <2>3
  <1>. QED
    BY <1>1, <1>9, <1>10, <1>11, EndsWell

\* The expiry, which withdraws open quotes and no other.
LEMMA ExpireKept ==
  ASSUME QuoteInv, NEW s \in Slots, ExpireSave(s)
  PROVE  QuoteInv' /\ Frozen
  <1>1. /\ Ids = 1 .. Len(quotes) /\ Len(quotes) \in Nat /\ FileKinds /\ WellKept(quotes)
        /\ Ends(s) /\ UNCHANGED <<file, jobs, bought>> /\ project' = "expired"
        /\ \A q \in Ids : quotes[q] \in Row
    BY Names DEF QuoteInv, Kinds, ExpireSave
  <1>2. quotes' = [q \in 1 .. Len(quotes) |->
                     IF Open(q) THEN [quotes[q] EXCEPT !.status = "rejected"] ELSE quotes[q]]
    BY <1>1 DEF ExpireSave
  <1>3. \A q \in Ids :
          LET row == IF Open(q) THEN [quotes[q] EXCEPT !.status = "rejected"] ELSE quotes[q] IN
          /\ row \in Row /\ row.origin = quotes[q].origin /\ row.rev = quotes[q].rev
          /\ row.by = quotes[q].by /\ row.items = quotes[q].items /\ row.born = quotes[q].born
          /\ quotes[q].status = "accepted" => row = quotes[q]
    BY <1>1 DEF Row, QuoteStatus, Open
  <1>4. quotes' \in Seq(Row) /\ Len(quotes') = Len(quotes)
    <2>1. quotes' \in [1 .. Len(quotes) -> Row]
      BY <1>1, <1>2, <1>3
    <2>2. quotes' \in Seq(Row)
      BY <1>1, <2>1, SeqDef, Zenon
    <2>3. Len(quotes') \in Nat /\ 1 .. Len(quotes') = 1 .. Len(quotes)
      BY <2>1, <2>2, LenProperties
    <2>4. Len(quotes') = Len(quotes)
      BY <1>1, <2>3
    <2>. QED
      BY <2>2, <2>4
  <1>5. \A q \in Ids :
          /\ quotes'[q].origin = quotes[q].origin /\ quotes'[q].rev = quotes[q].rev
          /\ quotes'[q].by = quotes[q].by /\ quotes'[q].items = quotes[q].items
          /\ quotes'[q].born = quotes[q].born
          /\ quotes[q].status = "accepted" => quotes'[q] = quotes[q]
    BY <1>1, <1>2, <1>3
  <1>6. WellKept(quotes')
    <2>1. \A q \in 1 .. Len(quotes) :
            /\ quotes'[q].origin = quotes[q].origin /\ quotes'[q].rev = quotes[q].rev
            /\ quotes'[q].by = quotes[q].by /\ quotes'[q].born = quotes[q].born
            /\ quotes'[q].items \subseteq quotes[q].items
      BY <1>1, <1>5
    <2>. QED
      BY <1>1, <1>4, <2>1, RewriteKept
  <1>7. WellKept(quotes)' /\ (Len(quotes) <= MaxQuotes)' /\ FileKinds'
    BY <1>1, <1>4, <1>6 DEF WellKept, FileKinds, QuoteInv
  <1>8. Keeps /\ Frozen
    BY <1>1, <1>4, <1>5 DEF Keeps, Frozen
  <1>. QED
    BY <1>1, <1>7, <1>8, EndsWell

-----------------------------------------------------------------------------
(***************************************************************************)
(* The invariant, and what it implies.                                     *)
(***************************************************************************)

LEMMA InitQuote == Init => QuoteInv
  <1>. SUFFICES ASSUME Init PROVE QuoteInv
    OBVIOUS
  <1>1. FileKinds
    BY DEF Init, FileKinds, FileRow, FileStatus, Technologies
  <1>2. run \in [Slots -> Memory] /\ asked \in 0 .. MaxRequests
    BY MemoryMade, QuotingAssumption DEF Init, Idle
  <1>3. WellKept(quotes) /\ Len(quotes) <= MaxQuotes
    <2>1. quotes = <<>> /\ quotes \in Seq(Row) /\ Len(quotes) = 0
      BY DEF Init
    <2>. QED
      BY <2>1, QuotingAssumption DEF WellKept
  <1>4. \A s \in Slots : run[s].op = "idle"
    BY DEF Init, Idle
  <1>5. \A s \in Slots : Sound(run[s])
    BY <1>4 DEF Sound
  <1>. QED
    BY <1>1, <1>2, <1>3, <1>5 DEF QuoteInv, Kinds

LEMMA NextQuote ==
  ASSUME QuoteInv, Next
  PROVE  QuoteInv' /\ Frozen
  <1>0. UNCHANGED quotes => Frozen
    BY DEF Frozen
  <1>1. CASE \/ \E f \in Files : Upload(f) \/ \E t \in Technologies : Redeliver(f, t)
             \/ \E q \in Ids : Checkout(q)
             \/ StartProduction
    BY <1>0, <1>1, AloneQuote
  <1>2. ASSUME NEW s \in Slots, Save(s) PROVE QuoteInv' /\ Frozen
    <2>1. CASE ProgressSave(s) \/ PurgeSave(s) \/ \E o \in {"completed", "failed"} : AnswerSave(s, o)
      BY <1>0, <2>1, FileSaveQuote
    <2>2. CASE AutoQuote(s)
      BY <1>0, <2>2, ReadQuote
    <2>3. CASE SwitchSave(s) \/ MaterialSave(s)
      BY <1>0, <2>3, PartQuote
    <2>. QED
      BY <1>2, <2>1, <2>2, <2>3, PersistKept, ReviseKept, AcceptKept, SplitKept, ExpireKept DEF Save
  <1>3. ASSUME NEW s \in Slots,
               \/ Answer(s) \/ \E f \in Files, t \in Technologies : ProgressRead(s, f, t)
        PROVE  QuoteInv' /\ Frozen
    BY <1>0, <1>3, CallbackQuote DEF Answer
  <1>4. ASSUME NEW s \in Slots,
               \/ \E fs \in SUBSET Files : StoreRead(s, fs)
               \/ \E q \in Ids : \/ Configure(s, q) \/ Requantify(s, q) \/ AcceptRead(s, q)
                                 \/ \E group \in SUBSET Files : SplitRead(s, q, group)
        PROVE  QuoteInv' /\ Frozen
    BY <1>0, <1>4, ReadQuote
  <1>5. ASSUME NEW s \in Slots,
               \/ \E f \in Files, staff \in BOOLEAN :
                     \/ \E t \in Technologies : SwitchRead(s, f, t, staff)
                     \/ MaterialRead(s, f, staff)
               \/ ExpireRead(s) \/ PurgeRead(s)
        PROVE  QuoteInv' /\ Frozen
    BY <1>0, <1>5, PartQuote
  <1>. QED
    BY <1>1, <1>2, <1>3, <1>4, <1>5, Zenon DEF Next

LEMMA StutterQuote ==
  ASSUME QuoteInv, UNCHANGED vars
  PROVE  QuoteInv' /\ Frozen
  <1>1. UNCHANGED <<quotes, run>> /\ asked' \in 0 .. MaxRequests /\ FileKinds'
    BY DEF vars, QuoteInv, Kinds, FileKinds
  <1>. QED
    BY <1>1, NoHandler DEF Frozen

\* However requests, callbacks, splits and jobs interleave, the rows are well
\* kept, no line is on two quotes, and what a handler counts on is there.
THEOREM QuoteInvariance == Spec => []QuoteInv
  <1>1. QuoteInv /\ [Next]_vars => QuoteInv'
    BY NextQuote, StutterQuote
  <1>. QED
    BY InitQuote, <1>1, PTL DEF Spec

\* Two quotes the system priced never carry the same revision: the project's
\* lock, and a revision above all others, make it so (persistQuote).
THEOREM RevisionsDiffer == Spec => []SystemRevisionsDiffer
  <1>1. QuoteInv => SystemRevisionsDiffer
    <2>. SUFFICES ASSUME QuoteInv PROVE SystemRevisionsDiffer
      OBVIOUS
    <2>1. Ids = 1 .. Len(quotes)
      BY Names
    <2>. QED
      BY <2>1 DEF QuoteInv, WellKept, SystemRevisionsDiffer
  <1>. QED
    BY QuoteInvariance, <1>1, PTL

\* No step changes an accepted quote but the save of a split that has been
\* overtaken (splitQuote, which looks at the status only before it begins).
THEOREM AcceptedStaysFrozen == Spec => FrozenOnceAccepted
  <1>1. QuoteInv /\ [Next]_vars => [Frozen]_vars
    BY NextQuote, StutterQuote
  <1>2. [Frozen]_vars
        => [\A q \in Ids : quotes[q].status = "accepted" /\ quotes'[q] # quotes[q]
                           => \E s \in Slots : Overtaken(s) /\ run'[s] = Idle]_vars
    BY DEF Frozen
  <1>. QED
    BY QuoteInvariance, <1>1, <1>2, PTL DEF Spec, FrozenOnceAccepted

-----------------------------------------------------------------------------
(***************************************************************************)
(* Jobs and handlers are counted.                                          *)
(***************************************************************************)

\* What is counted.
LEMMA Finite ==
  ASSUME QuoteInv
  PROVE  /\ IsFiniteSet(Busy) /\ Cardinality(Busy) \in Nat
         /\ IsFiniteSet(Switching) /\ Cardinality(Switching) \in Nat
         /\ asked \in Nat /\ jobs \in [Files -> [Technologies -> Nat]]
  <1>1. IsFiniteSet(Busy) /\ IsFiniteSet(Switching)
    BY QuotingAssumption, FS_Subset DEF Busy, Switching
  <1>. QED
    BY <1>1, FS_CardinalityType DEF QuoteInv, Kinds, FileKinds

\* One more element counts one more, at most.
LEMMA AddsOne ==
  ASSUME NEW S, IsFiniteSet(S), NEW x
  PROVE  /\ IsFiniteSet(S \cup {x}) /\ Cardinality(S \cup {x}) \in Nat
         /\ Cardinality(S \cup {x}) <= Cardinality(S) + 1
  <1>1. IsFiniteSet(S \cup {x}) /\ Cardinality(S) \in Nat /\ Cardinality(S \cup {x}) \in Nat
    BY FS_AddElement, FS_CardinalityType
  <1>2. CASE x \in S
    <2>1. Cardinality(S \cup {x}) = Cardinality(S)
      BY <1>2, FS_AddElement
    <2>. QED
      BY <1>1, <2>1
  <1>3. CASE x \notin S
    <2>1. Cardinality(S \cup {x}) = Cardinality(S) + 1
      BY <1>3, FS_AddElement
    <2>. QED
      BY <1>1, <2>1
  <1>. QED
    BY <1>2, <1>3

\* A handler moves that does not begin a switch, and no job is added.
LEMMA PlainCount ==
  ASSUME QuoteInv, QuoteInv', Counted, NEW s \in Slots, NEW r,
         run' = [run EXCEPT ![s] = r], r.op # "switch",
         run[s] # Idle \/ Cardinality(Busy) < MaxInFlight, asked <= asked',
         \A f \in Files, t \in Technologies : jobs'[f][t] <= jobs[f][t]
  PROVE  Counted'
  <1>1. /\ run \in [Slots -> Memory]
        /\ IsFiniteSet(Busy) /\ Cardinality(Busy) \in Nat
        /\ IsFiniteSet(Switching) /\ Cardinality(Switching) \in Nat
        /\ asked \in Nat /\ \A f \in Files, t \in Technologies : jobs[f][t] \in Nat
    BY Finite DEF QuoteInv, Kinds
  <1>2. /\ asked' \in Nat /\ \A f \in Files, t \in Technologies : jobs'[f][t] \in Nat
        /\ MaxInFlight \in Nat
    BY QuotingAssumption DEF QuoteInv, Kinds, FileKinds
  <1>3. Cardinality(Busy') <= MaxInFlight
    <2>1. CASE run[s] # Idle
      <3>1. Busy' \subseteq Busy
        BY <1>1, <2>1 DEF Busy
      <3>2. Cardinality(Busy') \in Nat /\ Cardinality(Busy') <= Cardinality(Busy)
        BY <1>1, <3>1, FS_Subset, FS_CardinalityType
      <3>. QED
        BY <1>1, <1>2, <3>2 DEF Counted
    <2>2. CASE run[s] = Idle /\ Cardinality(Busy) < MaxInFlight
      <3>1. Busy' \subseteq Busy \cup {s}
        BY <1>1 DEF Busy
      <3>2. /\ IsFiniteSet(Busy \cup {s}) /\ Cardinality(Busy \cup {s}) \in Nat
            /\ Cardinality(Busy \cup {s}) <= Cardinality(Busy) + 1
        BY <1>1, AddsOne
      <3>3. Cardinality(Busy') \in Nat /\ Cardinality(Busy') <= Cardinality(Busy \cup {s})
        BY <3>1, <3>2, FS_Subset, FS_CardinalityType
      <3>. QED
        BY <1>1, <1>2, <2>2, <3>2, <3>3
    <2>. QED
      BY <2>1, <2>2
  <1>4. Cardinality(Switching') \in Nat /\ Cardinality(Switching') <= Cardinality(Switching)
    <2>1. Switching' \subseteq Switching
      BY <1>1 DEF Switching
    <2>. QED
      BY <1>1, <2>1, FS_Subset, FS_CardinalityType
  <1>5. Cardinality(Switching') <= asked'
    BY <1>1, <1>2, <1>4 DEF Counted
  <1>6. \A f \in Files, t \in Technologies : jobs'[f][t] + Cardinality(Switching') <= 1 + asked'
    BY <1>1, <1>2, <1>4 DEF Counted
  <1>. QED
    BY <1>3, <1>5, <1>6 DEF Counted

\* A switch begins: it was asked for.
LEMMA SwitchBegins ==
  ASSUME QuoteInv, QuoteInv', Counted, NEW s \in Slots, NEW f \in Files, NEW t \in Technologies,
         NEW staff \in BOOLEAN, SwitchRead(s, f, t, staff)
  PROVE  Counted'
  <1>1. /\ run \in [Slots -> Memory]
        /\ IsFiniteSet(Busy) /\ Cardinality(Busy) \in Nat
        /\ IsFiniteSet(Switching) /\ Cardinality(Switching) \in Nat
        /\ asked \in Nat /\ \A g \in Files, u \in Technologies : jobs[g][u] \in Nat
        /\ MaxInFlight \in Nat
    BY Finite, QuotingAssumption DEF QuoteInv, Kinds
  <1>2. PICK r : /\ r.op = "switch" /\ Begin(s, r) /\ UNCHANGED jobs
                 /\ Cardinality(Busy) < MaxInFlight /\ asked' = asked + 1
                 /\ run[s] = Idle /\ run' = [run EXCEPT ![s] = r]
    BY DEF SwitchRead, Begin, Busy, Callbacks
  <1>3. Busy' \subseteq Busy \cup {s} /\ Switching' \subseteq Switching \cup {s}
    BY <1>1, <1>2 DEF Busy, Switching
  <1>4. /\ IsFiniteSet(Busy \cup {s}) /\ Cardinality(Busy \cup {s}) \in Nat
        /\ Cardinality(Busy \cup {s}) <= Cardinality(Busy) + 1
        /\ IsFiniteSet(Switching \cup {s}) /\ Cardinality(Switching \cup {s}) \in Nat
        /\ Cardinality(Switching \cup {s}) <= Cardinality(Switching) + 1
    BY <1>1, AddsOne
  <1>5. /\ Cardinality(Busy') \in Nat /\ Cardinality(Busy') <= Cardinality(Busy) + 1
        /\ Cardinality(Switching') \in Nat /\ Cardinality(Switching') <= Cardinality(Switching) + 1
    <2>1. Cardinality(Busy') \in Nat /\ Cardinality(Busy') <= Cardinality(Busy \cup {s})
      BY <1>3, <1>4, FS_Subset, FS_CardinalityType
    <2>2. Cardinality(Switching') \in Nat /\ Cardinality(Switching') <= Cardinality(Switching \cup {s})
      BY <1>3, <1>4, FS_Subset, FS_CardinalityType
    <2>. QED
      BY <1>1, <1>4, <2>1, <2>2
  <1>6. Cardinality(Busy') <= MaxInFlight
    BY <1>1, <1>2, <1>5
  <1>7. /\ Cardinality(Switching') <= asked'
        /\ \A g \in Files, u \in Technologies : jobs'[g][u] + Cardinality(Switching') <= 1 + asked'
    BY <1>1, <1>2, <1>5 DEF Counted
  <1>. QED
    BY <1>6, <1>7 DEF Counted

\* A switch ends: its job is added.
LEMMA SwitchEnds ==
  ASSUME QuoteInv, QuoteInv', Counted, NEW s \in Slots, SwitchSave(s)
  PROVE  Counted'
  <1>1. /\ run \in [Slots -> Memory] /\ run[s] \in Memory /\ run[s].op = "switch"
        /\ IsFiniteSet(Busy) /\ Cardinality(Busy) \in Nat
        /\ IsFiniteSet(Switching) /\ Cardinality(Switching) \in Nat
        /\ asked \in Nat /\ jobs \in [Files -> [Technologies -> Nat]]
        /\ MaxInFlight \in Nat
    BY Finite, QuotingAssumption DEF QuoteInv, Kinds, SwitchSave
  <1>. DEFINE f == run[s].file
              t == run[s].tech
  <1>2. /\ f \in Files /\ t \in Technologies /\ asked' = asked
        /\ run' = [run EXCEPT ![s] = Idle]
        /\ UNCHANGED jobs \/ jobs' = [jobs EXCEPT ![f][t] = @ + 1]
    BY <1>1, MemoryKinds DEF SwitchSave, Ends
  <1>. HIDE DEF f, t
  <1>3. Busy' \subseteq Busy /\ Switching' = Switching \ {s} /\ s \in Switching
    BY <1>1, <1>2 DEF Busy, Switching, Idle
  <1>4. /\ Cardinality(Busy') \in Nat /\ Cardinality(Busy') <= Cardinality(Busy)
        /\ Cardinality(Switching') = Cardinality(Switching) - 1
    BY <1>1, <1>3, FS_Subset, FS_CardinalityType, FS_RemoveElement
  <1>5. \A g \in Files, u \in Technologies :
          jobs'[g][u] \in Nat /\ jobs[g][u] \in Nat /\ jobs'[g][u] <= jobs[g][u] + 1
    BY <1>1, <1>2
  <1>6. Cardinality(Busy') <= MaxInFlight
    BY <1>1, <1>4 DEF Counted
  <1>7. Cardinality(Switching') <= asked'
    BY <1>1, <1>2, <1>4 DEF Counted
  <1>8. \A g \in Files, u \in Technologies : jobs'[g][u] + Cardinality(Switching') <= 1 + asked'
    BY <1>1, <1>2, <1>4, <1>5 DEF Counted
  <1>. QED
    BY <1>6, <1>7, <1>8 DEF Counted

\* The project's own steps.
LEMMA AloneCount ==
  ASSUME QuoteInv, Counted,
         \/ \E f \in Files : Upload(f) \/ \E t \in Technologies : Redeliver(f, t)
         \/ \E q \in Ids : Checkout(q)
         \/ StartProduction \/ UNCHANGED vars
  PROVE  Counted'
  <1>1. /\ Cardinality(Switching) \in Nat /\ asked \in Nat
        /\ jobs \in [Files -> [Technologies -> Nat]]
    BY Finite
  <1>2. UNCHANGED run
    BY DEF Upload, Redeliver, Checkout, StartProduction, vars
  <1>3. Busy' = Busy /\ Switching' = Switching
    BY <1>2 DEF Busy, Switching
  <1>4. CASE \E f \in Files : Upload(f)
    <2>1. /\ asked' = asked
          /\ \A f \in Files, t \in Technologies : jobs'[f][t] = jobs[f][t] \/ jobs'[f][t] = 1
      BY <1>1, <1>4 DEF Upload
    <2>. QED
      BY <1>1, <1>3, <2>1 DEF Counted
  <1>5. CASE \E f \in Files, t \in Technologies : Redeliver(f, t)
    <2>1. /\ asked' = asked + 1
          /\ \A f \in Files, t \in Technologies :
                jobs'[f][t] = jobs[f][t] \/ jobs'[f][t] = jobs[f][t] + 1
      BY <1>1, <1>5 DEF Redeliver
    <2>. QED
      BY <1>1, <1>3, <2>1 DEF Counted
  <1>6. CASE UNCHANGED <<jobs, asked>>
    BY <1>3, <1>6 DEF Counted
  <1>. QED
    BY <1>4, <1>5, <1>6 DEF Checkout, StartProduction, vars

\* A handler begins or goes on with anything but a switch, and adds no job.
LEMMA MovesCount ==
  ASSUME QuoteInv, QuoteInv', Counted, NEW s \in Slots, NEW r, r.op # "switch",
         Begin(s, r) \/ (Continue(s, r) /\ run[s] # Idle),
         \A f \in Files, t \in Technologies : jobs'[f][t] <= jobs[f][t]
  PROVE  Counted'
  <1>1. run' = [run EXCEPT ![s] = r]
    BY DEF Begin, Continue
  <1>2. asked \in Nat /\ asked' \in Nat
    BY Finite DEF QuoteInv, Kinds
  <1>3. (run[s] # Idle \/ Cardinality(Busy) < MaxInFlight) /\ asked <= asked'
    BY <1>2 DEF Begin, Continue, Busy
  <1>. QED
    BY <1>1, <1>3, PlainCount

\* One ends that was not a switch.
LEMMA EndsCount ==
  ASSUME QuoteInv, QuoteInv', Counted, NEW s \in Slots, Ends(s), run[s].op # "idle", UNCHANGED jobs
  PROVE  Counted'
  <1>1. asked \in Nat /\ \A f \in Files, t \in Technologies : jobs[f][t] \in Nat
    BY Finite
  <1>2. Continue(s, Idle) /\ Idle.op # "switch" /\ run[s] # Idle
    BY DEF Continue, Ends, Idle
  <1>. QED
    BY <1>1, <1>2, MovesCount

\* A handler's first step.
LEMMA ReadCount ==
  ASSUME QuoteInv, QuoteInv', Counted, NEW s \in Slots,
         \/ Answer(s)
         \/ \E f \in Files, t \in Technologies : ProgressRead(s, f, t)
         \/ \E fs \in SUBSET Files : StoreRead(s, fs)
         \/ \E q \in Ids : Configure(s, q) \/ Requantify(s, q) \/ AcceptRead(s, q)
         \/ \E q \in Ids, group \in SUBSET Files : SplitRead(s, q, group)
         \/ \E f \in Files, staff \in BOOLEAN : MaterialRead(s, f, staff)
         \/ ExpireRead(s) \/ PurgeRead(s)
  PROVE  Counted'
  <1>1. jobs \in [Files -> [Technologies -> Nat]]
    BY Finite
  <1>2. CASE Answer(s)
    <2>1. PICK f \in Files, t \in Technologies : AnswerRead(s, f, t)
      BY <1>2 DEF Answer
    <2>2. \A g \in Files, u \in Technologies : jobs'[g][u] <= jobs[g][u]
      BY <1>1, <2>1 DEF AnswerRead
    <2>3. CASE Exists(f)
      <3>1. Begin(s, [op |-> "answer", file |-> f, tech |-> t, status |-> file[f].status,
                      grams |-> file[f].grams])
        BY <2>1, <2>3 DEF AnswerRead
      <3>. QED
        BY <2>2, <3>1, MovesCount
    <2>4. CASE UNCHANGED <<run, asked>>
      <3>1. Busy' = Busy /\ Switching' = Switching
        BY <2>4 DEF Busy, Switching
      <3>2. \A g \in Files, u \in Technologies : jobs'[g][u] \in Nat /\ jobs[g][u] \in Nat
        BY DEF QuoteInv, Kinds, FileKinds
      <3>3. Cardinality(Switching) \in Nat /\ asked \in Nat
        BY Finite
      <3>. QED
        BY <2>2, <2>4, <3>1, <3>2, <3>3 DEF Counted
    <2>. QED
      BY <2>1, <2>3, <2>4 DEF AnswerRead
  <1>3. ASSUME NEW r, r.op # "switch", Begin(s, r), UNCHANGED jobs PROVE Counted'
    <2>1. \A f \in Files, t \in Technologies : jobs'[f][t] <= jobs[f][t]
      BY <1>1, <1>3
    <2>. QED
      BY <1>3, <2>1, MovesCount
  <1>4. CASE \/ \E f \in Files, t \in Technologies : ProgressRead(s, f, t)
             \/ \E q \in Ids : AcceptRead(s, q)
    <2>1. PICK r : r.op # "switch" /\ Begin(s, r) /\ UNCHANGED jobs
      BY <1>4 DEF ProgressRead, AcceptRead
    <2>. QED
      BY <1>3, <2>1
  <1>5. CASE \/ \E f \in Files, staff \in BOOLEAN : MaterialRead(s, f, staff)
             \/ ExpireRead(s) \/ PurgeRead(s)
    <2>1. PICK r : r.op # "switch" /\ Begin(s, r) /\ UNCHANGED jobs
      BY <1>5 DEF MaterialRead, ExpireRead, PurgeRead
    <2>. QED
      BY <1>3, <2>1
  <1>6. CASE \E fs \in SUBSET Files : StoreRead(s, fs)
    <2>1. PICK r : r.op # "switch" /\ Begin(s, r) /\ UNCHANGED jobs
      BY <1>6 DEF StoreRead
    <2>. QED
      BY <1>3, <2>1
  <1>7. CASE \E q \in Ids : Configure(s, q) \/ Requantify(s, q)
    <2>1. PICK r : r.op # "switch" /\ Begin(s, r) /\ UNCHANGED jobs
      BY <1>7 DEF Configure, Requantify, Held
    <2>. QED
      BY <1>3, <2>1
  <1>8. CASE \E q \in Ids, group \in SUBSET Files : SplitRead(s, q, group)
    <2>1. PICK r : r.op # "switch" /\ Begin(s, r) /\ UNCHANGED jobs
      BY <1>8 DEF SplitRead
    <2>. QED
      BY <1>3, <2>1
  <1>. QED
    BY <1>2, <1>4, <1>5, <1>6, <1>7, <1>8

\* A handler's second.
LEMMA SaveCount ==
  ASSUME QuoteInv, QuoteInv', Counted, NEW s \in Slots, Save(s)
  PROVE  Counted'
  <1>1. \A f \in Files, t \in Technologies : jobs[f][t] \in Nat
    BY Finite
  <1>2. CASE SwitchSave(s)
    BY <1>2, SwitchEnds
  <1>3. CASE \/ ProgressSave(s) \/ PersistQuote(s) \/ Revise(s) \/ AcceptSave(s)
             \/ SplitSave(s) \/ ExpireSave(s) \/ PurgeSave(s)
    <2>1. Ends(s) /\ run[s].op # "idle" /\ UNCHANGED jobs
      BY <1>3 DEF ProgressSave, PersistQuote, Revise, AcceptSave, SplitSave, ExpireSave, PurgeSave
    <2>. QED
      BY <2>1, EndsCount
  <1>4. ASSUME NEW r, r.op # "switch", Continue(s, r), run[s].op # "idle", UNCHANGED jobs
        PROVE  Counted'
    <2>1. run[s] # Idle /\ \A f \in Files, t \in Technologies : jobs'[f][t] <= jobs[f][t]
      BY <1>1, <1>4 DEF Idle
    <2>. QED
      BY <1>4, <2>1, MovesCount
  <1>5. CASE MaterialSave(s) \/ \E o \in {"completed", "failed"} : AnswerSave(s, o)
    <2>1. /\ Continue(s, [op |-> "auto"]) /\ run[s].op # "idle" /\ UNCHANGED jobs
          /\ [op |-> "auto"].op # "switch"
      BY <1>5 DEF MaterialSave, AnswerSave
    <2>. QED
      BY <1>4, <2>1
  <1>6. CASE AutoQuote(s)
    <2>1. run[s].op # "idle" /\ UNCHANGED jobs
          /\ (Ends(s) \/ \E r : r.op # "switch" /\ Continue(s, r))
      BY <1>6 DEF AutoQuote
    <2>. QED
      BY <1>4, <2>1, EndsCount
  <1>. QED
    BY <1>2, <1>3, <1>5, <1>6 DEF Save

LEMMA NextCounted ==
  ASSUME QuoteInv, QuoteInv', Counted, [Next]_vars
  PROVE  Counted'
  <1>1. CASE \/ \E f \in Files : Upload(f) \/ \E t \in Technologies : Redeliver(f, t)
             \/ \E q \in Ids : Checkout(q)
             \/ StartProduction \/ UNCHANGED vars
    BY <1>1, AloneCount
  <1>2. ASSUME NEW s \in Slots, Save(s) PROVE Counted'
    BY <1>2, SaveCount
  <1>3. ASSUME NEW s \in Slots,
               \/ Answer(s) \/ \E f \in Files, t \in Technologies : ProgressRead(s, f, t)
               \/ \E fs \in SUBSET Files : StoreRead(s, fs)
               \/ \E q \in Ids : \/ Configure(s, q) \/ Requantify(s, q) \/ AcceptRead(s, q)
                                 \/ \E group \in SUBSET Files : SplitRead(s, q, group)
               \/ \E f \in Files, staff \in BOOLEAN : MaterialRead(s, f, staff)
               \/ ExpireRead(s) \/ PurgeRead(s)
        PROVE  Counted'
    BY <1>3, ReadCount
  <1>4. ASSUME NEW s \in Slots, NEW f \in Files, NEW t \in Technologies, NEW staff \in BOOLEAN,
               SwitchRead(s, f, t, staff)
        PROVE  Counted'
    BY <1>4, SwitchBegins
  <1>. QED
    BY <1>1, <1>2, <1>3, <1>4, Zenon DEF Next

LEMMA InitCounted == QuoteInv /\ Init => Counted
  <1>. SUFFICES ASSUME QuoteInv, Init PROVE Counted
    OBVIOUS
  <1>1. Busy = {} /\ Switching = {} /\ asked = 0
    BY DEF Init, Busy, Switching, Idle
  <1>2. \A f \in Files, t \in Technologies : jobs[f][t] = 0
    BY DEF Init
  <1>. QED
    BY <1>1, <1>2, FS_EmptySet, QuotingAssumption DEF Counted

\* The tables hold what their columns allow, the handlers in flight respect
\* their bound, and the jobs of a file are those that somebody asked for.
THEOREM TypeCorrect == Spec => []TypeOK
  <1>1. QuoteInv /\ QuoteInv' /\ Counted /\ [Next]_vars => Counted'
    BY NextCounted
  <1>2. QuoteInv /\ Counted => TypeOK
    <2>. SUFFICES ASSUME QuoteInv, Counted PROVE TypeOK
      OBVIOUS
    <2>1. /\ project \in {"draft", "expired"} /\ bought \in {"none", "session", "making"}
          /\ file \in [Files -> [status : FileStatus, tech : Technologies, grams : BOOLEAN]]
      BY DEF QuoteInv, Kinds, FileKinds, FileRow
    <2>2. \A f \in Files, t \in Technologies : jobs[f][t] \in 0..(1 + MaxRequests)
      <3>1. /\ Cardinality(Switching) \in Nat /\ asked \in 0 .. MaxRequests
            /\ \A f \in Files, t \in Technologies : jobs[f][t] \in Nat
        BY Finite DEF QuoteInv, Kinds
      <3>. QED
        BY <3>1, QuotingAssumption DEF Counted
    <2>3. Len(quotes) <= MaxQuotes
      BY DEF QuoteInv
    <2>4. \A q \in Ids :
            /\ quotes[q].status \in QuoteStatus /\ quotes[q].rev \in 1..MaxQuotes
            /\ quotes[q].origin # None => quotes[quotes[q].origin].origin = None
            /\ quotes[q].items \subseteq Files /\ quotes[q].born \in Ids
      <3>1. /\ Ids = 1 .. Len(quotes) /\ Len(quotes) \in Nat /\ MaxQuotes \in Nat
            /\ \A q \in Ids : quotes[q] \in Row
        BY Names, QuotingAssumption
      <3>2. \A q \in Ids : quotes[q].status \in QuoteStatus /\ quotes[q].items \subseteq Files
        BY <3>1 DEF Row
      <3>3. \A q \in Ids : quotes[q].rev \in 1 .. Len(quotes)
        BY <3>1 DEF QuoteInv, WellKept
      <3>4. \A q \in Ids :
              /\ quotes[q].origin # None => quotes[quotes[q].origin].origin = None
              /\ quotes[q].born \in Ids
        BY <3>1 DEF QuoteInv, WellKept
      <3>5. \A q \in Ids : quotes[q].rev \in 1 .. MaxQuotes
        BY <2>3, <3>1, <3>3
      <3>. QED
        BY <3>2, <3>4, <3>5
    <2>5. Cardinality({s \in Slots : run[s] # Idle}) <= MaxInFlight
      BY DEF Counted, Busy
    <2>. QED
      BY <2>1, <2>2, <2>3, <2>4, <2>5 DEF TypeOK
  <1>. QED
    BY QuoteInvariance, InitQuote, InitCounted, <1>1, <1>2, PTL DEF Spec
=============================================================================
