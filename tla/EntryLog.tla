------------------------------ MODULE EntryLog ------------------------------
(***************************************************************************)
(* raft/entry_logger.hpp over raft/mapped_file.hpp: the log as the words   *)
(* of the mapped file raft.ldbs (a sentry, the entries, an end marker and  *)
(* whatever older entries left behind it), the table infos of where each   *)
(* entry starts, the page-wise growth of the file, the chain of            *)
(* configuration entries, and the compaction state in raft.stat.  Sizes    *)
(* are in words: the header of an entry is one word, the end marker too.   *)
(*                                                                         *)
(* A process may die between two operations, and inside an append; the     *)
(* kernel keeps what it wrote to the mapped pages.                         *)
(***************************************************************************)
EXTENDS Integers, Sequences, FiniteSets, SequencesExt

CONSTANTS
  Command, Config,   \* contents of client entries and of configuration entries
  NoConfig,          \* the empty string
  SizeOf,            \* words of an entry, by its content
  PageSize,          \* words of a page
  MaxIndex,          \* bound: no entry beyond this index
  MaxTerm,           \* bound: no entry beyond this term
  MaxBatch,          \* bound: entries of one append_entries call
  MaxBatchConfigs    \* bound: configuration entries among them

Content == Command \cup Config

ASSUME ContentAssumption == Command \cap Config = {} /\ NoConfig \notin Content
\* A page is long enough for the factor 1.25 to add a word to it.
ASSUME SizeAssumption == SizeOf \in [Content -> Nat \ {0}] /\ PageSize \in Nat /\ PageSize >= 4
ASSUME LogBoundsAssumption == MaxIndex \in Nat /\ MaxTerm \in Nat /\ MaxBatch \in Nat /\ MaxBatchConfigs \in Nat

VARIABLES
  \* raft.ldbs: its words, and how much of it is mapped (ldbs_size)
  file, ldbs_size, mapped,
  \* raft.stat
  last_index, last_term, last_config,
  \* memory of the process
  infos, payload_size, cfg_entry_index,
  \* what append, chop or drop returned last; whether an append was torn by a death
  rc, torn,
  \* history: the operation that was called last, and the index it was called for
  asked

fileVars == <<file, ldbs_size, mapped>>
statVars == <<last_index, last_term, last_config>>
memVars == <<infos, payload_size, cfg_entry_index>>
vars == <<fileVars, statVars, memVars, rc, torn, asked>>

\* The call of an operation, recorded.
Ask(op, i) == asked' = [op |-> op, index |-> i]

-----------------------------------------------------------------------------
(***************************************************************************)
(* Words.  Reading a word inside an entry as a header gives a size that    *)
(* leaves the mapping.                                                     *)
(***************************************************************************)
Wild == 1000

\* A header that has nothing but a size.
Blank(n) == [size |-> n, index |-> 0, term |-> 0, cfg |-> FALSE, prev |-> 0, data |-> NoConfig]

Zero == Blank(0)
Sentry == Blank(1)
Body == Blank(Wild)

log_end_marker_size == 1

\* The words ws written at offset pos of f.
Put(f, pos, ws) ==
  [p \in DOMAIN f |-> IF p - pos + 1 \in DOMAIN ws THEN ws[p - pos + 1] ELSE f[p]]

\* size = log_end_marker in the header at pos, the rest of which nothing reads any more.
Mark(f, pos) == [f EXCEPT ![pos] = Zero]

\* Offsets the iterator visits from a given one on; the last is the one it stops at, the
\* end marker or a place outside the mapping.
WalkFrom(f) ==
  LET From[p \in Nat] ==
        IF p \notin DOMAIN f \/ f[p].size = 0 THEN <<p>> ELSE <<p>> \o From[p + f[p].size]
  IN From

\* From the sentry on.
Offsets(f) == WalkFrom(f)[0]

Readable(f) == Last(Offsets(f)) \in DOMAIN f

InfosOf(f) == LET o == Offsets(f) IN
  [k \in 1..Len(o) - 1 |-> [index |-> f[o[k]].index, amount |-> o[k]]]

\* The index of the last configuration entry the scan of init meets.
CfgIndexOf(f) ==
  LET o == Offsets(f)
      C == {k \in 1..Len(o) - 1 : f[o[k]].cfg}
  IN IF C = {} THEN 0 ELSE f[o[CHOOSE k \in C : \A j \in C : j <= k]].index

-----------------------------------------------------------------------------
(***************************************************************************)
(* Lookup.  infos[1] is the sentry, so index i is at position              *)
(* i - last_index + 1; infos.front().index is 0.                           *)
(***************************************************************************)
InRange(i) ==
  /\ i >= infos[1].index
  /\ i <= Last(infos).index
  /\ ~(i > 0 /\ Len(infos) > 1 /\ i < infos[2].index)

InfoAt(i) == IF i = 0 THEN infos[1] ELSE infos[i - last_index - infos[1].index + 1]

EntryAt(i) == file[InfoAt(i).amount]

last_entry == file[Last(infos).amount]

last_entry_index == IF Len(infos) = 1 THEN last_index ELSE last_entry.index
last_entry_term == IF Len(infos) = 1 THEN last_term ELSE last_entry.term

\* config(): empty for the sentry and for an index that is not in the log.
config == IF InRange(cfg_entry_index) THEN EntryAt(cfg_entry_index).data ELSE NoConfig

\* The entry reached from i along prev_cfg that is not at or behind limit.
CfgBefore(i, limit) ==
  LET From[j \in 0..i] == IF j > limit THEN From[EntryAt(j).prev] ELSE j
  IN From[i]

-----------------------------------------------------------------------------
(***************************************************************************)
(* init: on a new file, and on the files of an earlier process.            *)
(***************************************************************************)
PageUp(n) == ((n + PageSize - 1) \div PageSize) * PageSize

Init ==
  /\ ldbs_size = PageUp(2)
  /\ file = [p \in 0..PageUp(2) - 1 |-> IF p = 0 THEN Sentry ELSE Zero]
  /\ mapped = TRUE
  /\ last_index = 0
  /\ last_term = 0
  /\ last_config = NoConfig
  /\ infos = <<[index |-> 0, amount |-> 0]>>
  /\ payload_size = 1
  /\ cfg_entry_index = 0
  /\ rc = "GOOD"
  /\ torn = FALSE
  /\ asked = [op |-> "none", index |-> 0]

\* A process dies, leaving f in the file, and another one loads it.
Load(f) ==
  /\ file' = f
  /\ ldbs_size' = Cardinality(DOMAIN f)
  /\ mapped' = TRUE
  /\ infos' = InfosOf(f)
  /\ payload_size' = Last(Offsets(f))
  /\ cfg_entry_index' = CfgIndexOf(f)
  /\ rc' = "GOOD"
  /\ UNCHANGED statVars

Restart == Load(file) /\ UNCHANGED <<torn, asked>>

-----------------------------------------------------------------------------
(***************************************************************************)
(* append.  The entries of a batch are made before the first is appended,  *)
(* so their prev_cfg is the configuration before the batch.                *)
(***************************************************************************)
\* make_log_entry and copy(entry, data, cfg).
make_entry(i, t, d) ==
  [size |-> SizeOf[d], index |-> i, term |-> t, cfg |-> d \in Config,
   prev |-> IF d \in Config THEN cfg_entry_index ELSE 0, data |-> d]

make_entries(t, ds) == [k \in DOMAIN ds |-> make_entry(last_entry_index + k, t, ds[k])]

\* The size of the first k entries.
SizeUpTo(es) ==
  LET Sum[k \in 0..Len(es)] == IF k = 0 THEN 0 ELSE Sum[k - 1] + es[k].size
  IN Sum

size_bytes(es) == SizeUpTo(es)[Len(es)]

\* memcpy of the entries one behind the other: the header of each, then the words of its
\* data.
AllWords(es) ==
  LET before == SizeUpTo(es)
      HeadsAt(p) == {k \in DOMAIN es : before[k - 1] + 1 = p}
  IN [p \in 1..size_bytes(es) |->
        IF HeadsAt(p) = {} THEN Body ELSE es[CHOOSE k \in HeadsAt(p) : TRUE]]

\* grow_ldbs: factor 1.25, rounded up to pages.
NextSize(n) == PageUp((n * 5) \div 4)

\* Mutant: the end marker is forgotten.
FitsWithoutMarker(n, bytes) == n - payload_size >= bytes

\* The loop condition of append, negated.
Fits(n, bytes) == n - payload_size - log_end_marker_size > bytes

\* ftruncate fills with zeros.
Truncate(f, n) == [p \in 0..n - 1 |-> IF p \in DOMAIN f THEN f[p] ELSE Zero]

\* Sizes append maps, one after the other, to make room.
Growth(bytes) ==
  LET From[n \in {m \in Nat : m >= ldbs_size}] ==
        IF Fits(n, bytes) THEN <<n>> ELSE <<n>> \o From[NextSize(n)]
  IN From[ldbs_size]

\* The file after the growth g.
Grown(g) == IF Len(g) = 1 THEN file ELSE Truncate(file, Last(g))

EndOffset == Last(infos).amount + last_entry.size

\* infos after the entries es: each starts where the one before it ends.
InfosAfter(es) ==
  infos \o [k \in DOMAIN es |-> [index |-> es[k].index,
                                 amount |-> EndOffset + SizeUpTo(es)[k - 1]]]

\* Mutant: what is behind the new entries is taken for the end.
WrittenUnmarked(f, es) == Put(f, EndOffset, AllWords(es))

\* The file with es and the end marker behind them.
Written(f, es) == Mark(Put(f, EndOffset, AllWords(es)), EndOffset + size_bytes(es))

\* Mutant: only the first entry of a batch is looked at.
CfgIndexAfterFirst(es) == IF es[1].cfg THEN es[1].index ELSE cfg_entry_index

\* The last configuration among es, or else the one before.
CfgIndexAfter(es) ==
  LET C == {k \in DOMAIN es : es[k].cfg}
  IN IF C = {} THEN cfg_entry_index ELSE es[CHOOSE k \in C : \A j \in C : j <= k].index

\* The entries are written; a file that is no longer mapped cannot be synced, and append
\* reports an error although the entries are in the log.
AppendEntries(es) ==
  LET g == Growth(size_bytes(es)) IN
  /\ Ask("append", Last(es).index)
  /\ mapped \/ Len(g) = 1
  /\ file' = Written(Grown(g), es)
  /\ ldbs_size' = Last(g)
  /\ infos' = InfosAfter(es)
  /\ payload_size' = payload_size + size_bytes(es)
  /\ cfg_entry_index' = CfgIndexAfter(es)
  /\ rc' = IF mapped THEN "GOOD" ELSE "ERROR"
  /\ UNCHANGED <<mapped, statVars, torn>>

\* remap fails at the k-th growth, before or after ftruncate; the old mapping stays in
\* use but no later remap will try again.
AppendFails(es) ==
  LET g == Growth(size_bytes(es)) IN
  /\ Ask("append", Last(es).index)
  /\ Len(g) > 1
  /\ \/ /\ mapped
        /\ \E k \in 2..Len(g), truncated \in BOOLEAN :
             /\ ldbs_size' = g[k - 1]
             /\ file' = Truncate(file, IF truncated THEN g[k] ELSE g[k - 1])
     \/ ~mapped /\ UNCHANGED <<file, ldbs_size>>
  /\ mapped' = FALSE
  /\ rc' = "ERROR"
  /\ UNCHANGED <<statVars, memVars, torn>>

\* The process dies inside append, after the first n words of es, and comes back.
AppendTorn(es) ==
  LET g == Growth(size_bytes(es)) IN
  /\ Ask("append", Last(es).index)
  /\ mapped
  /\ \E n \in 1..size_bytes(es) :
       Load(Put(Grown(g), EndOffset, SubSeq(AllWords(es), 1, n)))
  /\ torn' = TRUE

-----------------------------------------------------------------------------
(***************************************************************************)
(* chop and drop; both are called for an index of the log.                 *)
(***************************************************************************)
\* Mutant: only one configuration is taken back.
CfgAfterChopOnce(i) == IF i <= cfg_entry_index THEN EntryAt(cfg_entry_index).prev ELSE cfg_entry_index

\* The loop of chop over prev_cfg.
CfgAfterChop(i) == CfgBefore(cfg_entry_index, i - 1)

\* Mutant: one entry more goes, be it the sentry.
KeptInfosShort(i) == SubSeq(infos, 1, i - last_index - 1)

\* infos.erase from position index - last_index() on.
KeptInfos(i) == SubSeq(infos, 1, i - last_index)

chop_to(i) ==
  /\ file' = Mark(file, InfoAt(i).amount)
  /\ payload_size' = InfoAt(i).amount
  /\ infos' = KeptInfos(i)

Chop(i) ==
  /\ Ask("chop", i)
  /\ i > 0 /\ InRange(i)
  /\ cfg_entry_index' = CfgAfterChop(i)
  /\ chop_to(i)
  /\ rc' = IF mapped THEN "GOOD" ELSE "ERROR"
  /\ UNCHANGED <<ldbs_size, mapped, statVars, torn>>

\* The configuration entry at or before i that drop finds, if it is still in the log.
ConfigUpTo(i) ==
  LET c == CfgBefore(cfg_entry_index, i)
  IN IF c > 0 /\ InRange(c) THEN EntryAt(c).data ELSE NoConfig

\* copy(states): an empty configuration leaves the old one.
copy_states(c, i, t) ==
  /\ last_index' = i
  /\ last_term' = t
  /\ last_config' = IF c = NoConfig THEN last_config ELSE c

\* infos after the entries up to i are gone and the others moved down.
MovedInfos(i, dropped) ==
  <<infos[1]>> \o [k \in 1..Len(infos) - (i - last_index) - 1 |->
                     [infos[k + i - last_index + 1] EXCEPT !.amount = @ - dropped]]

\* memmove of n words from offset begin to offset first.
Move(f, first, begin, n) ==
  [p \in DOMAIN f |-> IF p \in first..first + n - 1 THEN f[p - first + begin] ELSE f[p]]

\* Mutant: chop has forgotten the configuration by the time drop looks for it.
DropAllForgets(i) ==
  /\ Ask("drop", i)
  /\ i > 0 /\ InRange(i)
  /\ i = Last(infos).index
  /\ cfg_entry_index' = 0
  /\ chop_to(last_index + 1)
  /\ copy_states(NoConfig, i, EntryAt(i).term)
  /\ rc' = "GOOD"
  /\ UNCHANGED <<ldbs_size, mapped, torn>>

\* The last entry goes too: chop the log at its first entry.  A chop that cannot be
\* synced has happened, but drop returns before raft.stat is written.
DropAll(i) ==
  /\ Ask("drop", i)
  /\ i > 0 /\ InRange(i)
  /\ i = Last(infos).index
  /\ cfg_entry_index' = 0
  /\ chop_to(last_index + 1)
  /\ \/ mapped /\ copy_states(ConfigUpTo(i), i, EntryAt(i).term) /\ rc' = "GOOD"
     \/ ~mapped /\ UNCHANGED statVars /\ rc' = "ERROR"
  /\ UNCHANGED <<ldbs_size, mapped, torn>>

DropFront(i) ==
  LET first == infos[2].amount
      begin == InfoAt(i + 1).amount
      moved == EndOffset - begin
      dropped == begin - first
  IN
  /\ Ask("drop", i)
  /\ i > 0 /\ InRange(i)
  /\ i < Last(infos).index
  /\ cfg_entry_index' = IF i >= cfg_entry_index THEN 0 ELSE cfg_entry_index
  /\ payload_size' = payload_size - dropped
  /\ infos' = MovedInfos(i, dropped)
  /\ file' = Mark(Move(file, first, begin, moved), EndOffset - dropped)
  /\ copy_states(ConfigUpTo(i), i, EntryAt(i).term)
  /\ rc' = IF mapped THEN "GOOD" ELSE "ERROR"
  /\ UNCHANGED <<ldbs_size, mapped, torn>>

\* The data_transfer handler: the log gives way to the sender's compaction state, which
\* is not older than the receiver's.
Transfer(i, t, c) ==
  /\ Ask("transfer", i)
  /\ i >= last_index /\ t >= last_term /\ (i = 0 <=> t = 0)
  /\ \/ Len(infos) = 1 /\ UNCHANGED <<file, payload_size, infos, cfg_entry_index>>
     \/ /\ Len(infos) > 1
        /\ cfg_entry_index' = CfgAfterChop(last_index + 1)
        /\ chop_to(last_index + 1)
  /\ copy_states(c, i, t)
  /\ UNCHANGED <<ldbs_size, mapped, rc, torn>>

-----------------------------------------------------------------------------
\* A leader appends one entry, a follower the entries of a call.
Batches ==
  {ds \in UNION {[1..n -> Content] : n \in 1..MaxBatch} :
     /\ last_entry_index + Len(ds) <= MaxIndex
     /\ Cardinality({k \in DOMAIN ds : ds[k] \in Config}) <= MaxBatchConfigs}

Next ==
  \/ /\ ~torn
     /\ \/ \E t \in last_entry_term..MaxTerm : t > 0 /\ \E ds \in Batches :
             LET es == make_entries(t, ds)
             IN AppendEntries(es) \/ AppendFails(es) \/ AppendTorn(es)
        \/ \E i \in 1..MaxIndex : Chop(i) \/ DropAll(i) \/ DropFront(i)
        \/ \E i \in 0..MaxIndex, t \in 0..MaxTerm, c \in Config \cup {NoConfig} : Transfer(i, t, c)
  \/ Restart

Spec == Init /\ [][Next]_vars

-----------------------------------------------------------------------------
(***************************************************************************)
(* Properties.                                                             *)
(***************************************************************************)
Word == [size : Nat, index : Nat, term : Nat, cfg : BOOLEAN, prev : Nat, data : Content \cup {NoConfig}]

Request == [op : {"none", "append", "chop", "drop", "transfer"}, index : Nat]

TypeOK ==
  /\ IsFiniteSet(DOMAIN file) /\ \A p \in DOMAIN file : file[p] \in Word
  /\ ldbs_size \in Nat /\ mapped \in BOOLEAN
  /\ last_index \in Nat /\ last_term \in Nat /\ last_config \in Config \cup {NoConfig}
  /\ infos \in Seq([index : Nat, amount : Nat]) /\ infos # <<>>
  /\ payload_size \in Nat /\ cfg_entry_index \in Nat
  /\ rc \in {"GOOD", "ERROR"} /\ torn \in BOOLEAN
  /\ asked \in Request

\* The word at the start of the k-th of infos.
HeadOf(k) == file[infos[k].amount]

\* i is compacted or the index of a configuration entry among the first n of infos.
IsCfgWithin(i, n) ==
  i <= last_index \/ (i - last_index + 1 \in 2..n /\ HeadOf(i - last_index + 1).cfg)

\* Why the files read back, as an inductive invariant: the file has no holes; the sentry is
\* its first word; each of infos is where its entry starts and the next one, or the end, is
\* where it ends; until an append is torn the end is a marker inside the mapping, the
\* indices follow last_index, and cfg_entry_index and every prev_cfg, which leads
\* backwards, are those of configuration entries.
FileInv ==
  /\ DOMAIN file = 0..Cardinality(DOMAIN file) - 1
  /\ PageSize <= ldbs_size /\ ldbs_size <= Cardinality(DOMAIN file)
  /\ infos[1] = [index |-> 0, amount |-> 0] /\ file[0] = Sentry
  /\ \A k \in DOMAIN infos :
       /\ infos[k].amount \in DOMAIN file
       /\ HeadOf(k).size > 0 /\ HeadOf(k).index = infos[k].index
       /\ infos[k].amount + HeadOf(k).size = IF k = Len(infos) THEN payload_size ELSE infos[k + 1].amount
  /\ payload_size \in DOMAIN file => file[payload_size].size = 0
  /\ ~torn =>
       /\ payload_size < ldbs_size
       /\ IsCfgWithin(cfg_entry_index, Len(infos))
       /\ \A k \in 2..Len(infos) :
            /\ infos[k].index = last_index + k - 1 /\ HeadOf(k).prev < infos[k].index
            /\ HeadOf(k).cfg => HeadOf(k).data \in Config /\ IsCfgWithin(HeadOf(k).prev, k - 1)

\* Whenever the process dies between two operations, init reads back from raft.ldbs the
\* very table, end and size that append, chop and drop kept in memory, whatever older
\* entries the end marker hides.
ReloadAgrees ==
  ~torn => Readable(file) /\ InfosOf(file) = infos /\ Last(Offsets(file)) = payload_size

\* append grows the file in time: the entries and the end marker are inside the mapping,
\* also when a growth failed or the process came back in between.
MarkerInMapping == ~torn => payload_size + log_end_marker_size <= ldbs_size

\* No configuration among the first n of infos is behind i.
IsLatestCfg(i, n) == \A k \in 2..n : HeadOf(k).cfg => infos[k].index <= i

\* Why the right configuration is found, as an inductive invariant (with FileInv):
\* cfg_entry_index is that of the last configuration of the log, and the prev_cfg of a
\* configuration that of the last one before it.
ChainInv ==
  ~torn =>
    /\ IsLatestCfg(cfg_entry_index, Len(infos))
    /\ \A k \in 2..Len(infos) : HeadOf(k).cfg => IsLatestCfg(HeadOf(k).prev, k - 1)

\* The log these words stand for.
Logged(k) ==
  LET w == file[infos[k + 1].amount]
  IN [index |-> w.index, term |-> w.term, cfg |-> w.cfg, data |-> w.data]

abstract_entries == [k \in 1..Len(infos) - 1 |-> Logged(k)]
abstract_base == [index |-> last_index, term |-> last_term, config |-> last_config]

Abstract == INSTANCE AbstractLog WITH entries <- abstract_entries, base <- abstract_base

\* The operations on words, offsets and the two files implement those on a log: each does
\* what its caller asked for, for the index it was asked for.  What drop moves, chop hides
\* and append writes over is right; drop leaves the index, the term and the configuration
\* of the entry it was called for, also when it takes the whole log; a call that fails has
\* done nothing or, if it is drop of the whole log, has chopped it and written no more; and
\* a death inside append loses nothing.
ImplementsLog == Abstract!Spec

\* The configuration chain: config() is the latest configuration of the log or is empty,
\* and when it is empty the latest one is the one in raft.stat, both for the process that
\* lived through the appends, chops and drops and for one that loads the files.  (That
\* raft.stat has the right one when a drop has emptied the log is ImplementsLog's matter.)
ConfigInEffect ==
  ~torn => \A c \in {config, IF CfgIndexOf(file) = 0 THEN NoConfig ELSE EntryAt(CfgIndexOf(file)).data} :
             (IF c = NoConfig THEN last_config ELSE c) = Abstract!LatestConfig

=============================================================================
