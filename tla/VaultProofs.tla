---------------------------- MODULE VaultProofs ----------------------------
(***************************************************************************)
(* Theorems about Vault.tla, for every page size, blob size and model:     *)
(* types; an upgrade that is killed, or cut off by a power failure, leaves *)
(* a vault the engine opens; a vault it opens is whole; a recovery lists   *)
(* what can be read.                                                       *)
(***************************************************************************)
EXTENDS Vault, TLAPS

----------------------------------------------------------------------------
(* Offsets *)

\* Integer division rounds down.
LEMMA DivBounds ==
    ASSUME NEW x \in Nat, NEW a \in Nat \ {0}
    PROVE  x \div a \in Nat /\ a * (x \div a) <= x /\ x < a * (x \div a) + a
  BY SMT

\* Integer division is monotonic.
LEMMA DivMonotonic ==
    ASSUME NEW x \in Nat, NEW y \in Nat, NEW a \in Nat \ {0}, x <= y
    PROVE  x \div a <= y \div a
  BY DivBounds, SMT

\* A file that holds n padded blobs is found to hold n.
LEMMA WholeBlobs ==
    ASSUME NEW n \in Nat, NEW b \in Nat \ {0}
    PROVE  (n * b) \div b = n
  BY SMT

\* Pages times bytes: the same quotient as pages.
LEMMA ScaledDiv ==
    ASSUME NEW p \in Nat, NEW b \in Nat \ {0}, NEW g \in Nat \ {0}
    PROVE  (p * g) \div (b * g) = p \div b
  <1> DEFINE q == p \div b
             r == p - b * q
  <1>1. q \in Nat /\ r \in Nat /\ r < b /\ p = b * q + r
    BY DivBounds, SMT
  <1> HIDE DEF q, r
  <1>2. p * g = (b * g) * q + r * g
    <2>1. p * g = (b * q + r) * g
      BY <1>1
    <2>2. (b * q + r) * g = (b * g) * q + r * g
      BY <1>1, SMT
    <2> QED  BY <2>1, <2>2
  <1>3. r * g \in Nat /\ r * g < b * g
    BY <1>1, SMT
  <1>4. b * g \in Nat \ {0} /\ p * g \in Nat
    BY SMT
  <1>5. (p * g) \div (b * g) = q
    BY <1>1, <1>2, <1>3, <1>4, SMT
  <1> QED  BY <1>5 DEF q

\* A file of p pages short of n blobs has fewer than their pages.
LEMMA ScaledLess ==
    ASSUME NEW x \in Nat, NEW y \in Nat, NEW b \in Nat \ {0}, NEW g \in Nat \ {0},
           ~ x * g < y * (b * g)
    PROVE  x >= y * b
  BY SMT

\* _align_up rounds up.
LEMMA AlignUpBounds ==
    ASSUME NEW x \in Nat, NEW a \in Nat \ {0}
    PROVE  AlignUp(x, a) \in Nat /\ x <= AlignUp(x, a)
  BY DivBounds, SMT DEF AlignUp

\* _align_up is monotonic.
LEMMA AlignUpMonotonic ==
    ASSUME NEW x \in Nat, NEW y \in Nat, NEW a \in Nat \ {0}, x <= y
    PROVE  AlignUp(x, a) <= AlignUp(y, a)
  <1>1. (x + a - 1) \div a <= (y + a - 1) \div a
    BY DivMonotonic
  <1>2. (x + a - 1) \div a \in Nat /\ (y + a - 1) \div a \in Nat
    BY DivBounds
  <1> QED  BY <1>1, <1>2, SMT DEF AlignUp

\* The offsets the scripts compute are in the order header, tables, block, blobs.
LEMMA Offsets ==
    ASSUME NEW n \in Nat
    PROVE  /\ TablesEnd(n) \in Nat /\ ArchOffset(n) \in Nat \ {0}
           /\ DataOffset(n) \in Nat /\ DataOffsetV1(n) \in Nat
           /\ TablesEnd(n) <= ArchOffset(n)
           /\ ArchOffset(n) + ArchSize <= DataOffset(n)
           /\ DataOffsetV1(n) <= DataOffset(n)
  <1>1. TablesEnd(n) \in Nat /\ TablesEnd(n) >= 64
    BY SMT DEF TablesEnd, HeaderSize, EntrySize, DescsSize
  <1>2. ArchOffset(n) \in Nat /\ TablesEnd(n) <= ArchOffset(n)
    BY <1>1, AlignUpBounds DEF ArchOffset
  <1>3. ArchOffset(n) + ArchSize \in Nat /\ TablesEnd(n) <= ArchOffset(n) + ArchSize
    BY <1>1, <1>2, SMT DEF ArchSize
  <1>4. Page \in Nat \ {0}
    BY LayoutAssumption, SMT
  <1>5. DataOffset(n) \in Nat /\ ArchOffset(n) + ArchSize <= DataOffset(n)
    BY <1>3, <1>4, AlignUpBounds DEF DataOffset
  <1>6. DataOffsetV1(n) \in Nat /\ DataOffsetV1(n) <= DataOffset(n)
    BY <1>1, <1>3, <1>4, AlignUpBounds, AlignUpMonotonic DEF DataOffset, DataOffsetV1
  <1> QED  BY <1>1, <1>2, <1>5, <1>6, SMT
----------------------------------------------------------------------------
(* The invariant *)

Stages == {"stamp", "sync1", "ext", "version", "sync2"}
Quiet == tool.at \in {"idle"} \cup Stages

\* Where the blobs are, and that there are no more of them than experts.
LayoutInv ==
    /\ cache.pages # 0 \/ disk.pages # 0 =>
         model.base = IF model.gap THEN DataOffset(model.n) ELSE DataOffsetV1(model.n)
    /\ cache.pages <= model.n * BlobPages
    /\ disk.pages <= model.n * BlobPages

\* The experts a header lists: all that were to be laid out, or, recovered from the
\* checkpoint they are all of, those that were written.
Listed == IF model.n = model.all THEN Written ELSE model.n

\* A block at b is behind the tables of n experts and before the blobs.
InGap(b, n, base) == TablesEnd(n) <= b /\ b + ArchSize <= base

BlockInv(b) == b # 0 => cache.pages # 0 /\ InGap(b, Listed, model.base)

\* A header speaks of the listed experts, and of an offset no later than theirs.
HeaderInv(h) ==
    h.version # 0 =>
        /\ cache.pages # 0
        /\ h.total = Listed
        /\ h.dataOff <= model.base
        /\ h.version = 2 => h.ext # 0 /\ BlockInv(h.ext)

Sound == ~lost /\ ~Miscounted

SoundInv ==
    Sound => /\ HeaderInv(cache.header)
             /\ BlockInv(cache.block)
             /\ cache.tables.total \in {0, Listed}

\* Where a running shatter has got to.
ShatterInv ==
    /\ tool.at \in {"blobs", "tables", "block"} =>
         /\ model.n # 0 /\ model.gap /\ model.base = DataOffset(model.n)
         /\ cache.block = 0
         /\ ~wasOpen
    /\ tool.at = "blobs" =>
         /\ cache.header = NoHeader /\ cache.tables = NoTables
         /\ headBy = "none"
    /\ tool.at \in {"tables", "block"} =>
         /\ cache.pages = model.n * BlobPages
         /\ cache.header = [version |-> 2, total |-> model.n, dataOff |-> model.base,
                            ext |-> ArchOffset(model.n)]
         /\ headBy = "shatter"
    /\ tool.at = "block" => cache.tables = [total |-> model.n, base |-> model.base]

\* A vault laid out by shatter is whole, or lacks the block its header points to.
WholeInv ==
    headBy = "shatter" /\ ~lost /\ ~forced =>
        \/ Right(cache) /\ (Quiet \/ tool.at = "block")
        \/ /\ cache.header.version = 2 /\ cache.header.ext # 0 /\ cache.block = 0
           /\ tool.at \in {"idle", "tables", "block"}

\* What an upgrade relies on.
StageInv ==
    /\ tool.at \in Stages =>
         /\ cache.header.version # 0
         /\ Sound => BlockInv(tool.slot)
         /\ tool.slot + ArchSize <= cache.header.dataOff
         /\ cache.header.version = 2 => cache.header.ext = tool.slot
    /\ tool.at \in Stages \ {"stamp"} => cache.block = tool.slot
    /\ tool.at \in {"version", "sync2"} => cache.header.ext = tool.slot

\* A header the engine accepts wherever the two images of the block differ.
Accepted(h) ==
    /\ h.version \in {1, 2}
    /\ h.version = 2 => BlockOk(h, cache.block) /\ BlockOk(h, disk.block)

\* An upgrade of a vault that was safe changes nothing but the block and two
\* fields of the header, and the block is on both images before it counts.
UpgradeInv ==
    wasOpen =>
        /\ Quiet
        /\ disk.tables = cache.tables /\ disk.pages = cache.pages
        /\ disk.header.total = cache.header.total /\ cache.header.total # 0
        /\ disk.header.dataOff = cache.header.dataOff
        /\ Accepted(cache.header) /\ Accepted(disk.header)
        /\ Sound => HeaderInv(disk.header) /\ BlockInv(disk.block)
        /\ tool.at \in Stages /\ disk.header.version = 2 => disk.header.ext = tool.slot
        /\ tool.at \in {"ext", "version", "sync2"} =>
             cache.block = tool.slot /\ disk.block = tool.slot

\* Where a recovery has got to, and what it leaves.
RecoveryInv ==
    /\ tool.at = "rows" \/ (headBy = "recovered" /\ ~lost) =>
         /\ cache.pages # 0
         /\ cache.header.version # 0
         /\ cache.header.total = Written
         /\ cache.header.dataOff = RecoveredBase
    /\ tool.at = "rows" =>
         /\ tool.rows = [total |-> Written, base |-> RecoveredBase]
         /\ headBy = "recovery"
         /\ ~wasOpen
    /\ headBy = "recovered" /\ ~lost =>
         /\ Quiet
         /\ cache.tables = [total |-> Written, base |-> RecoveredBase]

IInv ==
    /\ TypeOK /\ LayoutInv /\ SoundInv /\ ShatterInv /\ WholeInv
    /\ StageInv /\ UpgradeInv /\ RecoveryInv
----------------------------------------------------------------------------
(* Every step keeps the invariant *)

\* The fields of the running script, by its place.
LEMMA ToolShape ==
    ASSUME TypeOK
    PROVE  /\ tool = Idle \/ tool.at \in {"blobs", "tables", "block", "rows"} \cup Stages
           /\ tool.at = "idle" => tool = Idle
           /\ tool.at \in {"blobs", "tables", "block"} =>
                \A l : [tool EXCEPT !.at = l] = [at |-> l]
           /\ tool.at \in Stages =>
                /\ tool.slot \in Nat \ {0}
                /\ \A l : [tool EXCEPT !.at = l] = [at |-> l, slot |-> tool.slot]
           /\ tool.at = "rows" => tool.rows \in [total : Nat, base : Nat]
  <1>1. tool \in Tools
    BY DEF TypeOK
  <1>2. CASE tool = Idle
    BY <1>2, SMT DEF Idle, Stages
  <1>3. CASE tool \in [at : {"blobs", "tables", "block"}]
    BY <1>3, SMT DEF Idle, Stages
  <1>4. CASE tool \in [at : {"stamp", "sync1", "ext", "version", "sync2"}, slot : Nat \ {0}]
    BY <1>4, SMT DEF Idle, Stages
  <1>5. CASE tool \in [at : {"rows"}, rows : [total : Nat, base : Nat]]
    BY <1>5, SMT DEF Idle, Stages
  <1> QED  BY <1>1, <1>2, <1>3, <1>4, <1>5 DEF Tools


\* What recovery takes to be in the file does not change unless the blobs do.
LEMMA SameBlobs ==
    ASSUME model' = model, cache'.pages = cache.pages
    PROVE  RecoveredBase' = RecoveredBase /\ Written' = Written /\ Listed' = Listed
  BY DEF Written, Complete, Size, RecoveredBase, Listed

\* What recovery computes are numbers, whatever it counts.
LEMMA WrittenTyped ==
    ASSUME TypeOK
    PROVE  /\ RecoveredBase \in Nat /\ Size(cache) \in Nat /\ BlobSize \in Nat \ {0}
           /\ model.all * BlobSize \in Nat /\ Complete = RecoveredBase + model.all * BlobSize
           /\ Written \in Nat
  <1>1. /\ model.all \in Nat /\ model.base \in Nat /\ cache.pages \in Nat
        /\ Page \in Nat \ {0} /\ BlobPages \in Nat \ {0}
    BY LayoutAssumption, SMT DEF TypeOK, Files
  <1>2. RecoveredBase \in Nat
    BY <1>1, Offsets DEF RecoveredBase
  <1>3. BlobSize \in Nat \ {0}
    BY <1>1, SMT DEF BlobSize
  <1>4. model.all * BlobSize \in Nat
    BY <1>1, <1>3, SMT
  <1>5. cache.pages * Page \in Nat
    BY <1>1, SMT
  <1>6. Size(cache) \in Nat
    BY <1>1, <1>5, SMT DEF Size
  <1>7. CASE Size(cache) >= RecoveredBase
    <2>1. Size(cache) - RecoveredBase \in Nat
      BY <1>2, <1>6, <1>7, SMT
    <2>2. (Size(cache) - RecoveredBase) \div BlobSize \in Nat
      BY <1>3, <2>1, DivBounds
    <2> QED  BY <1>1, <1>2, <1>3, <1>4, <1>6, <1>7, <2>2 DEF Written, Complete
  <1>8. CASE ~ Size(cache) >= RecoveredBase
    <2> DEFINE short == RecoveredBase - Size(cache)
               dropped == AlignUp(short, BlobSize) \div BlobSize
    <2>1. short \in Nat
      BY <1>2, <1>6, <1>8, SMT
    <2>2. AlignUp(short, BlobSize) \in Nat
      BY <1>3, <2>1, AlignUpBounds
    <2>3. dropped \in Nat
      BY <1>3, <2>2, DivBounds
    <2>4. Written \in {model.all, IF dropped < model.all THEN model.all - dropped ELSE 0}
      BY <1>8 DEF Written
    <2> HIDE DEF dropped
    <2>5. Written \in Nat
      BY <1>1, <2>3, <2>4, SMT
    <2> QED  BY <1>2, <1>3, <1>4, <1>6, <2>5 DEF Complete
  <1> QED  BY <1>7, <1>8

\* A header lists at most the model's experts, all of them once the file is full.
\* If the vault holds the whole checkpoint its blobs start no earlier than recovery
\* assumes, the experts it lists lie in the file, and they are the complete ones if
\* it assumes right.
LEMMA WrittenBounds ==
    ASSUME TypeOK, LayoutInv, cache.pages # 0
    PROVE  /\ RecoveredBase \in Nat /\ Written \in Nat
           /\ Listed \in Nat /\ Listed <= model.n
           /\ cache.pages = model.n * BlobPages => Listed = model.n
           /\ model.n = model.all =>
                /\ RecoveredBase <= model.base /\ Written = Listed
                /\ RecoveredBase + Written * BlobSize <= Size(cache)
                /\ model.base = RecoveredBase => Written = Blobs(cache)
  <1> DEFINE past == Size(cache) - RecoveredBase
  <1>1. /\ model.n \in Nat /\ model.base \in Nat /\ cache.pages \in Nat \ {0}
        /\ Page \in Nat \ {0} /\ BlobPages \in Nat \ {0}
        /\ cache.pages <= model.n * BlobPages
    BY LayoutAssumption, SMT DEF TypeOK, Files, LayoutInv
  <1>2. /\ RecoveredBase \in Nat /\ Size(cache) \in Nat /\ BlobSize \in Nat \ {0}
        /\ Complete = RecoveredBase + model.all * BlobSize /\ Written \in Nat
    BY WrittenTyped
  <1>3. CASE model.n # model.all
    BY <1>1, <1>2, <1>3 DEF Listed
  <1>4. CASE model.n = model.all
    <2>1. RecoveredBase <= model.base
      BY <1>1, <1>4, Offsets, SMT DEF LayoutInv, RecoveredBase
    <2>2. cache.pages * Page \in Nat /\ past = model.base - RecoveredBase + cache.pages * Page
      BY <1>1, <1>2, <2>1, SMT DEF Size
    <2>3. past \in Nat /\ past >= cache.pages * Page
      BY <1>1, <1>2, <2>1, <2>2, SMT
    <2>4. model.n * BlobSize \in Nat
      BY <1>1, <1>2, SMT
    <2>5. Written = IF past >= model.n * BlobSize THEN model.n ELSE past \div BlobSize
      <3>1. Size(cache) >= Complete <=> past >= model.n * BlobSize
        BY <1>2, <1>4, <2>3, <2>4, SMT
      <3>2. Size(cache) >= RecoveredBase
        BY <1>2, <2>3, SMT
      <3> QED  BY <1>4, <3>1, <3>2, Zenon DEF Written
    <2>6. Size(cache) = RecoveredBase + past
      BY <1>2, <2>3, SMT
    <2>7. Listed = Written
      BY <1>4 DEF Listed
    <2> HIDE DEF past
    <2>8. CASE past >= model.n * BlobSize
      <3>1. Written = model.n
        BY <2>5, <2>8
      <3>2. RecoveredBase + Written * BlobSize <= Size(cache)
        BY <1>2, <2>3, <2>4, <2>6, <2>8, <3>1, SMT
      <3>3. ASSUME model.base = RecoveredBase PROVE Written = Blobs(cache)
        <4>1. past = cache.pages * Page
          BY <1>1, <1>2, <2>2, <3>3, SMT
        <4>2. ~ cache.pages * Page < model.n * (BlobPages * Page)
          BY <2>2, <2>4, <2>8, <4>1, SMT DEF BlobSize
        <4>3. cache.pages >= model.n * BlobPages
          BY <1>1, <4>2, ScaledLess
        <4>4. Blobs(cache) = model.n
          BY <1>1, <4>3, WholeBlobs, SMT DEF Blobs
        <4> QED  BY <3>1, <4>4
      <3> QED  BY <1>1, <1>2, <2>1, <2>7, <3>1, <3>2, <3>3, SMT
    <2>9. CASE ~ past >= model.n * BlobSize
      <3>1. Written = past \div BlobSize
        BY <2>5, <2>9
      <3>2. BlobSize * Written <= past
        BY <1>2, <2>3, <3>1, DivBounds
      <3>3. RecoveredBase + Written * BlobSize <= Size(cache)
        BY <1>2, <2>3, <2>6, <3>2, SMT
      <3>4. Written <= model.n
        <4>1. past <= model.n * BlobSize
          BY <2>3, <2>4, <2>9, SMT
        <4>2. past \div BlobSize <= (model.n * BlobSize) \div BlobSize
          BY <1>2, <2>3, <2>4, <4>1, DivMonotonic
        <4>3. (model.n * BlobSize) \div BlobSize = model.n
          BY <1>1, <1>2, WholeBlobs
        <4> QED  BY <3>1, <4>2, <4>3
      <3>5. cache.pages # model.n * BlobPages
        <4>1. cache.pages * Page < model.n * BlobSize
          BY <2>2, <2>3, <2>4, <2>9, SMT
        <4>2. model.n * BlobSize = model.n * BlobPages * Page
          BY <1>1, SMT DEF BlobSize
        <4> QED  BY <2>4, <4>1, <4>2, SMT
      <3>6. ASSUME model.base = RecoveredBase PROVE Written = Blobs(cache)
        <4>1. past = cache.pages * Page
          BY <1>1, <1>2, <2>2, <3>6, SMT
        <4>2. (cache.pages * Page) \div BlobSize = cache.pages \div BlobPages
          BY <1>1, ScaledDiv DEF BlobSize
        <4> QED  BY <3>1, <4>1, <4>2 DEF Blobs
      <3> QED  BY <1>2, <2>1, <2>7, <3>3, <3>4, <3>5, <3>6
    <2> QED  BY <2>8, <2>9
  <1> QED  BY <1>3, <1>4

\* A truncated file has its type.
LEMMA EmptyTyped == Truncated \in Files
  <1>1. NoHeader \in Headers
    BY SMT DEF NoHeader, Headers
  <1> QED  BY <1>1, SMT DEF Truncated, Files, NoTables

\* A new vault is an empty file, on disk too.
LEMMA BeginShatterKeeps ==
    ASSUME IInv, BeginShatter
    PROVE  IInv'
  <1> USE DEF IInv, Sound, Miscounted
  <1>1. PICK n \in Counts, all \in Counts :
            /\ model' = [n |-> n, all |-> all, base |-> DataOffset(n), gap |-> TRUE]
            /\ cache' = Truncated /\ disk' = Truncated
            /\ tool' = [at |-> "blobs"]
            /\ headBy' = "none" /\ lost' = FALSE /\ forced' = FALSE /\ wasOpen' = FALSE
    BY DEF BeginShatter
  <1>2. /\ n \in Nat \ {0} /\ all \in Nat
        /\ DataOffset(n) \in Nat /\ n * BlobPages \in Nat
    BY LayoutAssumption, Offsets, SMT
  <1>3. TypeOK'
    <2>1. model' \in [n : Nat, all : Nat, base : Nat, gap : BOOLEAN] /\ tool' \in Tools
      BY <1>1, <1>2, SMT DEF Tools
    <2> QED  BY <1>1, <2>1, EmptyTyped, Zenon DEF TypeOK
  <1>4. LayoutInv'
    BY <1>1, <1>2, SMT DEF LayoutInv, Truncated
  <1>5. SoundInv'
    BY <1>1, SMT DEF SoundInv, HeaderInv, BlockInv, Truncated, NoHeader, NoTables
  <1>6. ShatterInv'
    BY <1>1, <1>2, SMT DEF ShatterInv, Truncated
  <1>7. WholeInv' /\ StageInv' /\ UpgradeInv' /\ RecoveryInv'
    BY <1>1, SMT DEF WholeInv, StageInv, UpgradeInv, RecoveryInv, Stages
  <1> QED  BY <1>3, <1>4, <1>5, <1>6, <1>7

\* A page of blobs more: there is no metadata to speak of it.
LEMMA WriteBlobKeeps ==
    ASSUME IInv, WriteBlob
    PROVE  IInv'
  <1> USE DEF IInv, Sound, Miscounted
  <1>1. /\ tool.at = "blobs" /\ cache.pages < model.n * BlobPages
        /\ cache'.header = cache.header /\ cache'.tables = cache.tables
        /\ cache'.block = cache.block /\ cache'.pages = cache.pages + 1
        /\ UNCHANGED <<disk, tool, model, headBy, lost, forced, wasOpen>>
    BY SMT DEF WriteBlob, TypeOK, Files
  <1>2. /\ model.n # 0 /\ model.gap /\ model.base = DataOffset(model.n)
        /\ cache.header = NoHeader /\ cache.tables = NoTables /\ cache.block = 0
        /\ headBy = "none" /\ ~wasOpen
    BY <1>1 DEF ShatterInv
  <1>3. cache.pages \in Nat /\ model.n \in Nat /\ model.n * BlobPages \in Nat
    BY LayoutAssumption, SMT DEF TypeOK, Files
  <1>4. TypeOK'
    BY SMT DEF WriteBlob, TypeOK, Files
  <1>5. LayoutInv'
    BY <1>1, <1>2, <1>3, SMT DEF LayoutInv
  <1>6. SoundInv'
    BY <1>1, <1>2, SMT DEF SoundInv, HeaderInv, BlockInv, NoHeader, NoTables
  <1>7. ShatterInv'
    BY <1>1, <1>2, SMT DEF ShatterInv
  <1>8. WholeInv' /\ StageInv' /\ UpgradeInv' /\ RecoveryInv'
    BY <1>1, <1>2, SMT DEF WholeInv, StageInv, UpgradeInv, RecoveryInv, Stages
  <1> QED  BY <1>4, <1>5, <1>6, <1>7, <1>8

\* The header comes when every blob is there; the block it points to does not.
LEMMA WriteHeadKeeps ==
    ASSUME IInv, WriteHead
    PROVE  IInv'
  <1> USE DEF IInv, Sound, Miscounted
  <1>1. /\ tool.at = "blobs" /\ tool' = [at |-> "tables"]
        /\ cache.pages = model.n * BlobPages
        /\ cache'.header = [version |-> 2, total |-> model.n,
                            dataOff |-> model.base, ext |-> ArchOffset(model.n)]
        /\ cache'.tables = cache.tables /\ cache'.block = cache.block
        /\ cache'.pages = cache.pages
        /\ headBy' = "shatter"
        /\ UNCHANGED <<disk, model, lost, forced, wasOpen>>
    BY ToolShape, SMT DEF WriteHead, Goto, TypeOK, Files
  <1>2. /\ model.n # 0 /\ model.gap /\ model.base = DataOffset(model.n)
        /\ cache.tables = NoTables /\ cache.block = 0 /\ ~wasOpen
    BY <1>1 DEF ShatterInv
  <1>3. /\ model.n \in Nat \ {0} /\ model.base \in Nat
        /\ ArchOffset(model.n) \in Nat \ {0}
        /\ InGap(ArchOffset(model.n), model.n, model.base)
    BY <1>2, Offsets, SMT DEF TypeOK, InGap
  <1>4. cache.pages # 0
    BY <1>1, <1>3, LayoutAssumption, SMT
  <1>5. Listed' = model.n
    BY <1>1, <1>4, SameBlobs, WrittenBounds
  <1>6. TypeOK'
    BY <1>1, <1>3, SMT DEF WriteHead, TypeOK, Files, Headers, Tools
  <1>7. LayoutInv'
    BY <1>1, SMT DEF LayoutInv
  <1>8. SoundInv'
    BY <1>1, <1>2, <1>3, <1>4, <1>5, SMT DEF SoundInv, HeaderInv, BlockInv, NoTables
  <1>9. ShatterInv'
    BY <1>1, <1>2, SMT DEF ShatterInv
  <1>10. WholeInv'
    BY <1>1, <1>2, <1>3, SMT DEF WholeInv
  <1>11. StageInv' /\ UpgradeInv' /\ RecoveryInv'
    BY <1>1, <1>2, SMT DEF StageInv, UpgradeInv, RecoveryInv, Stages
  <1> QED  BY <1>6, <1>7, <1>8, <1>9, <1>10, <1>11

\* The tables come second.
LEMMA WriteTablesKeeps ==
    ASSUME IInv, WriteTables
    PROVE  IInv'
  <1> USE DEF IInv, Sound, Miscounted
  <1>1. /\ tool.at = "tables" /\ tool' = [at |-> "block"]
        /\ cache'.tables = [total |-> model.n, base |-> model.base]
        /\ cache'.header = cache.header /\ cache'.block = cache.block
        /\ cache'.pages = cache.pages
        /\ UNCHANGED <<disk, model, headBy, lost, forced, wasOpen>>
    BY ToolShape, SMT DEF WriteTables, Goto, TypeOK, Files
  <1>2. /\ model.n # 0 /\ ~wasOpen /\ cache.pages = model.n * BlobPages
        /\ headBy = "shatter"
    BY <1>1 DEF ShatterInv
  <1>3. cache.pages # 0
    BY <1>2, LayoutAssumption, SMT DEF TypeOK
  <1>4. Listed' = model.n /\ Listed = model.n
    BY <1>1, <1>2, <1>3, SameBlobs, WrittenBounds
  <1>5. TypeOK'
    BY <1>1, SMT DEF WriteTables, TypeOK, Files, Tools
  <1>6. LayoutInv'
    BY <1>1, SMT DEF LayoutInv
  <1>7. SoundInv'
    BY <1>1, <1>4, SMT DEF SoundInv, HeaderInv, BlockInv
  <1>8. ShatterInv'
    BY <1>1, SMT DEF ShatterInv
  <1>9. WholeInv'
    BY <1>1, SMT DEF WholeInv, Quiet, Stages
  <1>10. StageInv' /\ UpgradeInv' /\ RecoveryInv'
    BY <1>1, <1>2, SMT DEF StageInv, UpgradeInv, RecoveryInv, Stages
  <1> QED  BY <1>5, <1>6, <1>7, <1>8, <1>9, <1>10

\* The block comes last: the vault is whole.
LEMMA WriteBlockKeeps ==
    ASSUME IInv, WriteBlock
    PROVE  IInv'
  <1> USE DEF IInv, Sound, Miscounted
  <1>1. /\ tool.at = "block" /\ tool' = Idle /\ tool'.at = "idle"
        /\ cache'.block = ArchOffset(model.n)
        /\ cache'.header = cache.header /\ cache'.tables = cache.tables
        /\ cache'.pages = cache.pages
        /\ UNCHANGED <<disk, model, headBy, lost, forced, wasOpen>>
    BY SMT DEF WriteBlock, Idle, TypeOK, Files
  <1>2. /\ model.n # 0 /\ model.base = DataOffset(model.n) /\ ~wasOpen
        /\ cache.pages = model.n * BlobPages
        /\ cache.header.total = model.n
        /\ cache.tables = [total |-> model.n, base |-> model.base]
        /\ headBy = "shatter"
    BY <1>1 DEF ShatterInv
  <1>3. /\ model.n \in Nat \ {0}
        /\ ArchOffset(model.n) \in Nat \ {0}
        /\ InGap(ArchOffset(model.n), model.n, model.base)
    BY <1>2, Offsets, SMT DEF TypeOK, InGap
  <1>4. cache.pages # 0
    BY <1>2, <1>3, LayoutAssumption, SMT
  <1>5. Listed' = model.n /\ Listed = model.n
    BY <1>1, <1>2, <1>4, SameBlobs, WrittenBounds
  <1>6. Right(cache)'
    <2>1. Blobs(cache)' = model.n
      BY <1>1, <1>2, <1>3, LayoutAssumption, WholeBlobs DEF Blobs
    <2> QED  BY <1>1, <1>2, <1>3, <2>1, SMT DEF Right
  <1>7. TypeOK'
    BY <1>1, <1>3, SMT DEF WriteBlock, TypeOK, Files, Tools
  <1>8. LayoutInv'
    BY <1>1, SMT DEF LayoutInv
  <1>9. SoundInv'
    BY <1>1, <1>3, <1>4, <1>5, SMT DEF SoundInv, HeaderInv, BlockInv
  <1>10. ShatterInv'
    BY <1>1, SMT DEF ShatterInv
  <1>11. WholeInv'
    BY <1>1, <1>6 DEF WholeInv, Quiet
  <1>12. StageInv' /\ UpgradeInv' /\ RecoveryInv'
    BY <1>1, <1>2, SMT DEF StageInv, UpgradeInv, RecoveryInv, Stages
  <1> QED  BY <1>7, <1>8, <1>9, <1>10, <1>11, <1>12

\* The slot the script takes lies in the gap.
LEMMA BeginUpgradeKeeps ==
    ASSUME IInv, BeginUpgrade
    PROVE  IInv'
  <1> USE DEF IInv, Sound, Miscounted
  <1>1. PICK force \in BOOLEAN :
            /\ tool = Idle
            /\ Slot(cache.header, force) # 0
            /\ tool' = [at |-> "stamp", slot |-> Slot(cache.header, force)]
            /\ wasOpen' \in BOOLEAN /\ (wasOpen' => Opens(cache) /\ disk = cache)
            /\ forced' \in BOOLEAN
            /\ ~forced' => ~forced /\ (cache.header.version = 2 => Opens(cache))
            /\ UNCHANGED <<cache, disk, model, headBy, lost>>
    BY Zenon DEF BeginUpgrade, TypeOK
  <1>2. RecoveredBase' = RecoveredBase /\ Written' = Written /\ Listed' = Listed
    BY <1>1, SameBlobs
  <1> DEFINE slot == tool'.slot
  <1>3. /\ cache.header.version \in {1, 2} /\ cache.header.total \in Nat
        /\ slot \in Nat \ {0}
        /\ slot + ArchSize <= cache.header.dataOff
        /\ cache.header.version = 2 => cache.header.ext = slot
        /\ cache.header.version = 1 => slot = ArchOffset(cache.header.total)
    BY <1>1, Offsets, SMT DEF Slot, TypeOK, Files, Headers
  <1>4. Sound => BlockInv(slot)
    <2>1. CASE cache.header.version = 1
      BY <1>3, <2>1, Offsets, WrittenBounds, LayoutAssumption, SMT
         DEF SoundInv, HeaderInv, BlockInv, InGap, TypeOK, Files, Headers, ArchSize
    <2>2. CASE cache.header.version = 2
      BY <1>3, <2>2, SMT DEF SoundInv, HeaderInv
    <2> QED  BY <1>3, <2>1, <2>2
  <1>5. TypeOK'
    BY <1>1, <1>3, SMT DEF TypeOK, Tools, Opens
  <1>6. LayoutInv'
    BY <1>1, SMT DEF LayoutInv
  <1>7. SoundInv'
    BY <1>1, <1>2, SMT DEF SoundInv, HeaderInv, BlockInv
  <1>8. ShatterInv'
    BY <1>1, SMT DEF ShatterInv
  <1>9. WholeInv'
    BY <1>1, SMT DEF WholeInv, Right, Blobs, Quiet, Stages, Opens, BlockOk, Idle
  <1>10. StageInv'
    BY <1>1, <1>2, <1>3, <1>4, SMT DEF StageInv, Stages, BlockInv
  <1>11. UpgradeInv'
    BY <1>1, <1>2, <1>3, SMT DEF UpgradeInv, Quiet, Stages, Accepted, Opens, BlockOk,
                               HeaderInv, BlockInv, SoundInv
  <1>12. RecoveryInv'
    BY <1>1, <1>2, SMT DEF RecoveryInv, Quiet, Stages
  <1> QED  BY <1>5, <1>6, <1>7, <1>8, <1>9, <1>10, <1>11, <1>12

\* The block is stamped in that slot.
LEMMA StampKeeps ==
    ASSUME IInv, Stamp
    PROVE  IInv'
  <1> USE DEF IInv, Sound, Miscounted
  <1>1. /\ tool.at = "stamp" /\ tool' = [at |-> "sync1", slot |-> tool.slot]
        /\ tool.slot \in Nat \ {0}
        /\ cache'.header = cache.header /\ cache'.tables = cache.tables
        /\ cache'.block = tool.slot /\ cache'.pages = cache.pages
        /\ UNCHANGED <<disk, model, headBy, lost, forced, wasOpen>>
    BY ToolShape, SMT DEF Stamp, Goto, Idle, TypeOK, Files, Headers, Stages
  <1>2. RecoveredBase' = RecoveredBase /\ Written' = Written /\ Listed' = Listed
    BY <1>1, SameBlobs
  <1>3. TypeOK'
    BY <1>1, SMT DEF Stamp, TypeOK, Files, Headers, Tools, Idle
  <1>4. LayoutInv'
    BY <1>1, <1>2, SMT DEF LayoutInv
  <1>5. SoundInv'
    BY <1>1, <1>2, SMT DEF SoundInv, HeaderInv, BlockInv, StageInv, Stages
  <1>6. ShatterInv'
    BY <1>1, <1>2, SMT DEF ShatterInv
  <1>7. WholeInv'
    BY <1>1, <1>2, SMT DEF WholeInv, Right, Blobs, Quiet, Stages
  <1>8. StageInv'
    BY <1>1, <1>2, SMT DEF StageInv, Stages, BlockInv
  <1>9. UpgradeInv'
    BY <1>1, <1>2, SMT
       DEF UpgradeInv, Quiet, Stages, Accepted, BlockOk, HeaderInv, BlockInv, StageInv,
           SoundInv
  <1>10. RecoveryInv'
    BY <1>1, <1>2, SMT DEF RecoveryInv, Quiet, Stages
  <1> QED  BY <1>3, <1>4, <1>5, <1>6, <1>7, <1>8, <1>9, <1>10

\* The block reaches the disk before anything points to it.
LEMMA SyncBlockKeeps ==
    ASSUME IInv, SyncBlock
    PROVE  IInv'
  <1> USE DEF IInv, Sound, Miscounted
  <1>1. /\ tool.at = "sync1" /\ tool' = [at |-> "ext", slot |-> tool.slot]
        /\ tool.slot \in Nat \ {0}
        /\ disk' = cache
        /\ UNCHANGED <<cache, model, headBy, lost, forced, wasOpen>>
    BY ToolShape, SMT DEF SyncBlock, Goto, Idle, TypeOK, Files, Headers, Stages
  <1>2. RecoveredBase' = RecoveredBase /\ Written' = Written /\ Listed' = Listed
    BY <1>1, SameBlobs
  <1>3. TypeOK'
    BY <1>1, SMT DEF SyncBlock, TypeOK, Files, Headers, Tools, Idle
  <1>4. LayoutInv'
    BY <1>1, <1>2, SMT DEF LayoutInv
  <1>5. SoundInv'
    BY <1>1, <1>2, SMT DEF SoundInv, HeaderInv, BlockInv, StageInv, Stages
  <1>6. ShatterInv'
    BY <1>1, <1>2, SMT DEF ShatterInv
  <1>7. WholeInv'
    BY <1>1, <1>2, SMT DEF WholeInv, Right, Blobs, Quiet, Stages
  <1>8. StageInv'
    BY <1>1, <1>2, SMT DEF StageInv, Stages, BlockInv
  <1>9. UpgradeInv'
    BY <1>1, <1>2, SMT
       DEF UpgradeInv, Quiet, Stages, Accepted, BlockOk, HeaderInv, BlockInv, StageInv,
           SoundInv
  <1>10. RecoveryInv'
    BY <1>1, <1>2, SMT DEF RecoveryInv, Quiet, Stages
  <1> QED  BY <1>3, <1>4, <1>5, <1>6, <1>7, <1>8, <1>9, <1>10

\* The header points to the block.
LEMMA PatchExtKeeps ==
    ASSUME IInv, PatchExt
    PROVE  IInv'
  <1> USE DEF IInv, Sound, Miscounted
  <1>1. /\ tool.at = "ext" /\ tool' = [at |-> "version", slot |-> tool.slot]
        /\ tool.slot \in Nat \ {0}
        /\ cache'.header.version = cache.header.version
        /\ cache'.header.total = cache.header.total
        /\ cache'.header.dataOff = cache.header.dataOff /\ cache'.header.ext = tool.slot
        /\ cache'.tables = cache.tables /\ cache'.block = cache.block
        /\ cache'.pages = cache.pages
        /\ UNCHANGED <<disk, model, headBy, lost, forced, wasOpen>>
    BY ToolShape, SMT DEF PatchExt, Goto, Idle, TypeOK, Files, Headers, Stages
  <1>2. RecoveredBase' = RecoveredBase /\ Written' = Written /\ Listed' = Listed
    BY <1>1, SameBlobs
  <1>3. TypeOK'
    BY <1>1, SMT DEF PatchExt, TypeOK, Files, Headers, Tools, Idle
  <1>4. LayoutInv'
    BY <1>1, <1>2, SMT DEF LayoutInv
  <1>5. SoundInv'
    BY <1>1, <1>2, SMT DEF SoundInv, HeaderInv, BlockInv, StageInv, Stages
  <1>6. ShatterInv'
    BY <1>1, <1>2, SMT DEF ShatterInv
  <1>7. WholeInv'
    BY <1>1, <1>2, SMT DEF WholeInv, Right, Blobs, Quiet, Stages
  <1>8. StageInv'
    BY <1>1, <1>2, SMT DEF StageInv, Stages, BlockInv
  <1>9. UpgradeInv'
    BY <1>1, <1>2, SMT
       DEF UpgradeInv, Quiet, Stages, Accepted, BlockOk, HeaderInv, BlockInv, StageInv,
           SoundInv
  <1>10. RecoveryInv'
    BY <1>1, <1>2, SMT DEF RecoveryInv, Quiet, Stages
  <1> QED  BY <1>3, <1>4, <1>5, <1>6, <1>7, <1>8, <1>9, <1>10

\* The header asks for the block.
LEMMA PatchVersionKeeps ==
    ASSUME IInv, PatchVersion
    PROVE  IInv'
  <1> USE DEF IInv, Sound, Miscounted
  <1>1. /\ tool.at = "version" /\ tool' = [at |-> "sync2", slot |-> tool.slot]
        /\ tool.slot \in Nat \ {0}
        /\ cache'.header.version = 2 /\ cache'.header.total = cache.header.total
        /\ cache'.header.dataOff = cache.header.dataOff /\ cache'.header.ext = cache.header.ext
        /\ cache'.tables = cache.tables /\ cache'.block = cache.block
        /\ cache'.pages = cache.pages
        /\ UNCHANGED <<disk, model, headBy, lost, forced, wasOpen>>
    BY ToolShape, SMT DEF PatchVersion, Goto, Idle, TypeOK, Files, Headers, Stages
  <1>2. RecoveredBase' = RecoveredBase /\ Written' = Written /\ Listed' = Listed
    BY <1>1, SameBlobs
  <1>3. TypeOK'
    BY <1>1, SMT DEF PatchVersion, TypeOK, Files, Headers, Tools, Idle
  <1>4. LayoutInv'
    BY <1>1, <1>2, SMT DEF LayoutInv
  <1>5. SoundInv'
    BY <1>1, <1>2, SMT DEF SoundInv, HeaderInv, BlockInv, StageInv, Stages
  <1>6. ShatterInv'
    BY <1>1, <1>2, SMT DEF ShatterInv
  <1>7. WholeInv'
    BY <1>1, <1>2, SMT DEF WholeInv, Right, Blobs, Quiet, Stages
  <1>8. StageInv'
    BY <1>1, <1>2, SMT DEF StageInv, Stages, BlockInv
  <1>9. UpgradeInv'
    BY <1>1, <1>2, SMT
       DEF UpgradeInv, Quiet, Stages, Accepted, BlockOk, HeaderInv, BlockInv, StageInv,
           SoundInv
  <1>10. RecoveryInv'
    BY <1>1, <1>2, SMT DEF RecoveryInv, Quiet, Stages
  <1> QED  BY <1>3, <1>4, <1>5, <1>6, <1>7, <1>8, <1>9, <1>10

\* The header reaches the disk.
LEMMA SyncHeaderKeeps ==
    ASSUME IInv, SyncHeader
    PROVE  IInv'
  <1> USE DEF IInv, Sound, Miscounted
  <1>1. /\ tool.at = "sync2" /\ tool' = [at |-> "idle"]
        /\ disk' = cache
        /\ UNCHANGED <<cache, model, headBy, lost, forced, wasOpen>>
    BY ToolShape, SMT DEF SyncHeader, Goto, Idle, TypeOK, Files, Headers, Stages
  <1>2. RecoveredBase' = RecoveredBase /\ Written' = Written /\ Listed' = Listed
    BY <1>1, SameBlobs
  <1>3. TypeOK'
    BY <1>1, SMT DEF SyncHeader, TypeOK, Files, Headers, Tools, Idle
  <1>4. LayoutInv'
    BY <1>1, <1>2, SMT DEF LayoutInv
  <1>5. SoundInv'
    BY <1>1, <1>2, SMT DEF SoundInv, HeaderInv, BlockInv, StageInv, Stages
  <1>6. ShatterInv'
    BY <1>1, <1>2, SMT DEF ShatterInv
  <1>7. WholeInv'
    BY <1>1, <1>2, SMT DEF WholeInv, Right, Blobs, Quiet, Stages
  <1>8. StageInv'
    BY <1>1, <1>2, SMT DEF StageInv, Stages, BlockInv
  <1>9. UpgradeInv'
    BY <1>1, <1>2, SMT
       DEF UpgradeInv, Quiet, Stages, Accepted, BlockOk, HeaderInv, BlockInv, StageInv,
           SoundInv
  <1>10. RecoveryInv'
    BY <1>1, <1>2, SMT DEF RecoveryInv, Quiet, Stages
  <1> QED  BY <1>3, <1>4, <1>5, <1>6, <1>7, <1>8, <1>9, <1>10

\* The header speaks of the experts written, at the offset without a block.
LEMMA RecoverHeadKeeps ==
    ASSUME IInv, RecoverHead
    PROVE  IInv'
  <1> USE DEF IInv, Sound, Miscounted
  <1> DEFINE rows == [total |-> Written, base |-> RecoveredBase]
             kept == Kept(cache.header)
  <1>1. /\ tool = Idle /\ tool' = [at |-> "rows", rows |-> rows]
        /\ Size(cache) # 0
        /\ cache'.header = [version |-> kept.version, total |-> rows.total,
                            dataOff |-> rows.base, ext |-> kept.ext]
        /\ cache'.tables = rows \/ cache'.tables = NoTables
        /\ cache'.block = cache.block /\ cache'.pages = cache.pages
        /\ headBy' = "recovery" /\ wasOpen' = FALSE
        /\ UNCHANGED <<disk, model, lost, forced>>
    <2>1. /\ tool = Idle /\ tool' = [at |-> "rows", rows |-> rows]
          /\ Size(cache) # 0
          /\ cache' = [header |-> [version |-> kept.version, total |-> rows.total,
                                   dataOff |-> rows.base, ext |-> kept.ext],
                       tables |-> IF cache.tables = rows THEN rows ELSE NoTables,
                       block |-> cache.block,
                       pages |-> cache.pages]
          /\ headBy' = "recovery" /\ wasOpen' = FALSE
          /\ UNCHANGED <<disk, model, lost, forced>>
      BY DEF RecoverHead
    <2> HIDE DEF rows, kept
    <2> QED  BY <2>1, SMT DEF TypeOK, Files
  <1>2. RecoveredBase' = RecoveredBase /\ Written' = Written /\ Listed' = Listed
    BY <1>1, SameBlobs
  <1>3. cache.pages # 0
    BY <1>1 DEF Size
  <1>4. /\ RecoveredBase \in Nat /\ Written \in Nat
        /\ model.n = model.all => RecoveredBase <= model.base /\ Written = Listed
    BY <1>3, WrittenBounds
  <1>5. /\ kept.version \in {1, 2} /\ kept.ext \in Nat
        /\ kept.version = 2 => cache.header.version = 2 /\ kept.ext = cache.header.ext
    BY SMT DEF Kept, TypeOK, Files, Headers
  <1>6. TypeOK'
    <2>1. rows \in [total : Nat, base : Nat] /\ NoTables \in [total : Nat, base : Nat]
      BY <1>4, SMT DEF NoTables
    <2>2. cache'.header \in Headers
      BY <1>1, <1>4, <1>5, SMT DEF Headers
    <2>3. tool' \in Tools
      BY <1>1, <2>1, SMT DEF Tools
    <2>4. cache' \in Files
      <3>1. cache'.tables \in [total : Nat, base : Nat]
        BY <1>1, <2>1
      <3>2. cache' = [header |-> cache'.header, tables |-> cache'.tables,
                      block |-> cache.block, pages |-> cache.pages]
        BY <1>1, Zenon DEF RecoverHead
      <3>3. cache.block \in Nat /\ cache.pages \in Nat
        BY SMT DEF TypeOK, Files
      <3>4. [header |-> cache'.header, tables |-> cache'.tables,
             block |-> cache.block, pages |-> cache.pages] \in Files
        BY <2>2, <3>1, <3>3 DEF Files
      <3> QED  BY <3>2, <3>4, Zenon
    <2> QED  BY <1>1, <2>3, <2>4, Zenon DEF TypeOK
  <1>7. LayoutInv'
    BY <1>1, SMT DEF LayoutInv
  <1>8. SoundInv'
    BY <1>1, <1>2, <1>3, <1>4, <1>5, SMT DEF SoundInv, HeaderInv, BlockInv, NoTables
  <1>9. ShatterInv'
    BY <1>1, SMT DEF ShatterInv
  <1>10. WholeInv'
    BY <1>1 DEF WholeInv
  <1>11. StageInv'
    BY <1>1, SMT DEF StageInv, Stages
  <1>12. UpgradeInv'
    BY <1>1 DEF UpgradeInv
  <1>13. RecoveryInv'
    BY <1>1, <1>2, <1>3, <1>5, SMT DEF RecoveryInv
  <1> QED  BY <1>6, <1>7, <1>8, <1>9, <1>10, <1>11, <1>12, <1>13

\* The tables speak of the same experts.
LEMMA RecoverRowsKeeps ==
    ASSUME IInv, RecoverRows
    PROVE  IInv'
  <1> USE DEF IInv, Sound, Miscounted
  <1>1. /\ tool.at = "rows" /\ tool' = Idle
        /\ cache'.header = cache.header /\ cache'.tables = tool.rows
        /\ cache'.block = cache.block /\ cache'.pages = cache.pages
        /\ headBy' = "recovered"
        /\ UNCHANGED <<disk, model, lost, forced, wasOpen>>
    BY SMT DEF RecoverRows, TypeOK, Files
  <1>2. RecoveredBase' = RecoveredBase /\ Written' = Written /\ Listed' = Listed
    BY <1>1, SameBlobs
  <1>3. /\ cache.pages # 0
        /\ cache.header.version # 0
        /\ cache.header.total = Written
        /\ cache.header.dataOff = RecoveredBase
        /\ tool.rows = [total |-> Written, base |-> RecoveredBase]
        /\ ~wasOpen
    BY <1>1 DEF RecoveryInv
  <1>4. TypeOK'
    BY ToolShape, SMT DEF RecoverRows, TypeOK, Files, Headers, Tools, Idle
  <1>5. LayoutInv'
    BY <1>1, SMT DEF LayoutInv
  <1>6. SoundInv'
    BY <1>1, <1>2, <1>3, SMT DEF SoundInv, HeaderInv, BlockInv
  <1>7. ShatterInv'
    BY <1>1, SMT DEF ShatterInv, Idle
  <1>8. WholeInv'
    BY <1>1, SMT DEF WholeInv
  <1>9. StageInv'
    BY <1>1, SMT DEF StageInv, Stages, Idle
  <1>10. UpgradeInv'
    BY <1>1, <1>3 DEF UpgradeInv
  <1>11. RecoveryInv'
    BY <1>1, <1>2, <1>3, SMT DEF RecoveryInv, Quiet, Idle
  <1> QED  BY <1>4, <1>5, <1>6, <1>7, <1>8, <1>9, <1>10, <1>11

\* A region written back makes the images more alike.
LEMMA WritebackKeeps ==
    ASSUME IInv, NEW r \in Regions, Writeback(r)
    PROVE  IInv'
  <1> USE DEF IInv, Sound, Miscounted
  <1>1. /\ UNCHANGED <<cache, tool, model, headBy, lost, forced, wasOpen>>
        /\ disk' \in Files
        /\ disk'.header \in {disk.header, cache.header}
        /\ disk'.tables \in {disk.tables, cache.tables}
        /\ disk'.block \in {disk.block, cache.block}
        /\ disk'.pages \in {disk.pages, cache.pages}
    BY SMT DEF Writeback, Regions, Truncated, TypeOK, Files
  <1>2. RecoveredBase' = RecoveredBase /\ Written' = Written /\ Listed' = Listed
    BY <1>1, SameBlobs
  <1>3. TypeOK'
    BY <1>1, SMT DEF TypeOK
  <1>4. LayoutInv'
    BY <1>1, SMT DEF LayoutInv
  <1>5. SoundInv'
    BY <1>1, <1>2, SMT DEF SoundInv, HeaderInv, BlockInv
  <1>6. ShatterInv'
    BY <1>1, SMT DEF ShatterInv
  <1>7. WholeInv'
    BY <1>1, SMT DEF WholeInv, Right, Blobs, Quiet
  <1>8. StageInv'
    BY <1>1, <1>2, SMT DEF StageInv, BlockInv
  <1>9. UpgradeInv'
    BY <1>1, <1>2, SMT DEF UpgradeInv, Quiet, Stages, Accepted, BlockOk, HeaderInv, BlockInv,
                         StageInv, SoundInv
  <1>10. RecoveryInv'
    BY <1>1, <1>2, SMT DEF RecoveryInv, Quiet
  <1> QED  BY <1>3, <1>4, <1>5, <1>6, <1>7, <1>8, <1>9, <1>10

\* A killed script leaves what it wrote.
LEMMA KillKeeps ==
    ASSUME IInv, Kill
    PROVE  IInv'
  <1> USE DEF IInv, Sound, Miscounted
  <1>1. /\ tool'.at = "idle"
        /\ UNCHANGED <<cache, disk, model, headBy, lost, forced, wasOpen>>
    BY ToolShape, SMT DEF Kill, Goto, Idle, TypeOK, Files, Headers, Stages
  <1>2. RecoveredBase' = RecoveredBase /\ Written' = Written /\ Listed' = Listed
    BY <1>1, SameBlobs
  <1>3. TypeOK'
    BY <1>1, SMT DEF Kill, TypeOK, Files, Headers, Tools, Idle
  <1>4. LayoutInv'
    BY <1>1, <1>2, SMT DEF LayoutInv
  <1>5. SoundInv'
    BY <1>1, <1>2, SMT DEF SoundInv, HeaderInv, BlockInv, StageInv, Stages
  <1>6. ShatterInv'
    BY <1>1, <1>2, SMT DEF ShatterInv
  <1>7. WholeInv'
    BY <1>1, <1>2, SMT DEF WholeInv, Right, Blobs, Quiet, Stages
  <1>8. StageInv'
    BY <1>1, <1>2, SMT DEF StageInv, Stages, BlockInv
  <1>9. UpgradeInv'
    BY <1>1, <1>2, SMT
       DEF UpgradeInv, Quiet, Stages, Accepted, BlockOk, HeaderInv, BlockInv, StageInv,
           SoundInv
  <1>10. RecoveryInv'
    BY <1>1, <1>2, SMT DEF RecoveryInv, Quiet, Stages
  <1> QED  BY <1>3, <1>4, <1>5, <1>6, <1>7, <1>8, <1>9, <1>10

\* A power failure leaves the image on disk.
LEMMA PowerFailsKeeps ==
    ASSUME IInv, PowerFails
    PROVE  IInv'
  <1> USE DEF IInv, Sound, Miscounted
  <1>1. /\ cache' = disk /\ tool' = Idle
        /\ lost' \in BOOLEAN /\ (~lost' => ~lost /\ (disk = cache \/ wasOpen))
        /\ UNCHANGED <<disk, model, headBy, forced, wasOpen>>
    BY Zenon DEF PowerFails, TypeOK
  <1> USE DEF Idle
  <1>2. TypeOK'
    BY <1>1, SMT DEF TypeOK, Tools
  <1>3. LayoutInv'
    BY <1>1, SMT DEF LayoutInv
  <1>4. ShatterInv'
    BY <1>1, SMT DEF ShatterInv
  <1>5. StageInv'
    BY <1>1, SMT DEF StageInv, Stages
  <1>6. CASE disk = cache
    <2>1. RecoveredBase' = RecoveredBase /\ Written' = Written /\ Listed' = Listed
      BY <1>1, <1>6, SameBlobs
    <2>2. SoundInv'
      BY <1>1, <1>6, <2>1, SMT DEF SoundInv, HeaderInv, BlockInv
    <2>3. WholeInv'
      BY <1>1, <1>6, SMT DEF WholeInv, Right, Blobs, Quiet
    <2>4. UpgradeInv'
      BY <1>1, <1>6, <2>1, SMT DEF UpgradeInv, Quiet, Stages, Accepted, BlockOk, HeaderInv,
                                 BlockInv
    <2>5. RecoveryInv'
      BY <1>1, <1>6, <2>1, SMT DEF RecoveryInv, Quiet
    <2> QED  BY <1>2, <1>3, <1>4, <1>5, <2>2, <2>3, <2>4, <2>5
  <1>7. CASE disk # cache /\ wasOpen
    <2>1. cache'.tables = cache.tables /\ cache'.pages = cache.pages
      BY <1>1, <1>7 DEF UpgradeInv
    <2>2. RecoveredBase' = RecoveredBase /\ Written' = Written /\ Listed' = Listed
      BY <1>1, <2>1, SameBlobs
    <2>3. SoundInv'
      BY <1>1, <1>7, <2>1, <2>2, SMT DEF SoundInv, HeaderInv, BlockInv, UpgradeInv
    <2>4. WholeInv'
      BY <1>1, <1>7, <2>1, SMT DEF WholeInv, Right, Blobs, Quiet, UpgradeInv, Accepted, BlockOk
    <2>5. UpgradeInv'
      BY <1>1, <1>7, <2>2, SMT DEF UpgradeInv, Quiet, Stages, Accepted, BlockOk, HeaderInv,
                                 BlockInv
    <2>6. RecoveryInv'
      BY <1>1, <1>7, <2>1, <2>2, SMT DEF RecoveryInv, Quiet, UpgradeInv, Accepted
    <2> QED  BY <1>2, <1>3, <1>4, <1>5, <2>3, <2>4, <2>5, <2>6
  <1>8. CASE disk # cache /\ ~wasOpen
    <2>1. lost' /\ ~wasOpen'
      BY <1>1, <1>8
    <2>2. SoundInv' /\ WholeInv' /\ UpgradeInv' /\ RecoveryInv'
      BY <1>1, <2>1, SMT DEF SoundInv, WholeInv, UpgradeInv, RecoveryInv
    <2> QED  BY <1>2, <1>3, <1>4, <1>5, <2>2
  <1> QED  BY <1>6, <1>7, <1>8

----------------------------------------------------------------------------
(* The theorems *)

\* No vault, or a whole one of version 1.
LEMMA InitEstablishes == Init => IInv
  <1> SUFFICES ASSUME Init PROVE IInv
    OBVIOUS
  <1>1. /\ disk = cache /\ tool = [at |-> "idle"]
        /\ lost = FALSE /\ forced = FALSE /\ wasOpen = FALSE
    BY DEF Init, Idle
  <1>2. CASE /\ model = [n |-> 0, all |-> 0, base |-> 0, gap |-> FALSE]
             /\ cache = Truncated
             /\ headBy = "none"
    <2>1. TypeOK
      <3>1. model \in [n : Nat, all : Nat, base : Nat, gap : BOOLEAN] /\ tool \in Tools
        BY <1>1, <1>2, SMT DEF Tools, Idle
      <3> QED  BY <1>1, <1>2, <3>1, EmptyTyped, Zenon DEF TypeOK
    <2>2. LayoutInv
      BY <1>1, <1>2, LayoutAssumption, SMT DEF LayoutInv, Truncated
    <2>3. SoundInv
      BY <1>1, <1>2, SMT DEF SoundInv, HeaderInv, BlockInv, Truncated, NoHeader, NoTables
    <2>4. ShatterInv /\ WholeInv /\ StageInv /\ UpgradeInv /\ RecoveryInv
      BY <1>1, <1>2, SMT DEF ShatterInv, WholeInv, StageInv, UpgradeInv, RecoveryInv, Stages
    <2> QED  BY <2>1, <2>2, <2>3, <2>4 DEF IInv
  <1>3. ASSUME NEW n \in Counts, NEW all \in Counts,
               model = [n |-> n, all |-> all, base |-> DataOffsetV1(n), gap |-> FALSE],
               cache = [header |-> [version |-> 1, total |-> n, dataOff |-> model.base, ext |-> 0],
                        tables |-> [total |-> n, base |-> model.base],
                        block |-> 0,
                        pages |-> n * BlobPages],
               headBy = "shatter"
        PROVE  IInv
    <2>1. /\ n \in Nat \ {0} /\ all \in Nat /\ DataOffsetV1(n) \in Nat
          /\ n * BlobPages \in Nat \ {0}
      BY LayoutAssumption, Offsets, SMT
    <2>2. TypeOK
      <3>1. model \in [n : Nat, all : Nat, base : Nat, gap : BOOLEAN] /\ tool \in Tools
        BY <1>1, <1>3, <2>1, SMT DEF Tools, Idle
      <3>2. [version |-> 1, total |-> n, dataOff |-> model.base, ext |-> 0] \in Headers
        BY <1>3, <2>1, SMT DEF Headers
      <3>3. cache \in Files
        BY <1>3, <2>1, <3>2, SMT DEF Files
      <3> QED  BY <1>1, <1>3, <3>1, <3>3, Zenon DEF TypeOK
    <2>3. LayoutInv
      BY <1>1, <1>3, <2>1, SMT DEF LayoutInv
    <2>4. Listed = n
      BY <1>3, <2>1, <2>2, <2>3, WrittenBounds
    <2>5. Right(cache)
      <3>1. Blobs(cache) = n
        BY <1>3, <2>1, LayoutAssumption, WholeBlobs DEF Blobs
      <3> QED  BY <1>3, <2>1, <3>1, SMT DEF Right
    <2>6. SoundInv
      BY <1>3, <2>1, <2>4, SMT DEF SoundInv, HeaderInv, BlockInv
    <2>7. ShatterInv /\ WholeInv /\ StageInv /\ UpgradeInv /\ RecoveryInv
      BY <1>1, <1>3, <2>5, SMT DEF ShatterInv, WholeInv, Quiet, StageInv, UpgradeInv,
                                 RecoveryInv, Stages
    <2> QED  BY <2>2, <2>3, <2>6, <2>7 DEF IInv
  <1> QED  BY <1>1, <1>2, <1>3 DEF Init

\* Every step keeps the invariant.
LEMMA StepKeeps == IInv /\ [Next]_vars => IInv'
  <1> SUFFICES ASSUME IInv, [Next]_vars PROVE IInv'
    OBVIOUS
  <1>1. CASE Shatter
    BY <1>1, BeginShatterKeeps, WriteBlobKeeps, WriteHeadKeeps, WriteTablesKeeps,
       WriteBlockKeeps DEF Shatter
  <1>2. CASE Upgrade
    BY <1>2, BeginUpgradeKeeps, StampKeeps, SyncBlockKeeps, PatchExtKeeps,
       PatchVersionKeeps, SyncHeaderKeeps DEF Upgrade
  <1>3. CASE Recover
    BY <1>3, RecoverHeadKeeps, RecoverRowsKeeps DEF Recover
  <1>4. CASE \E r \in Regions : Writeback(r)
    BY <1>4, WritebackKeeps
  <1>5. CASE Kill
    BY <1>5, KillKeeps
  <1>6. CASE PowerFails
    BY <1>6, PowerFailsKeeps
  <1>7. CASE UNCHANGED vars
    BY <1>7, SMT
       DEF vars, IInv, TypeOK, LayoutInv, SoundInv, HeaderInv, BlockInv, ShatterInv,
           WholeInv,
           Right, Blobs, Quiet, StageInv, UpgradeInv, Accepted, BlockOk, RecoveryInv, Written,
           Complete, Size, RecoveredBase, Listed, Sound, Miscounted
  <1> QED  BY <1>1, <1>2, <1>3, <1>4, <1>5, <1>6, <1>7 DEF Next

\* The invariant holds in every reachable state.
LEMMA Invariance == Spec => []IInv
  BY InitEstablishes, StepKeeps, PTL DEF Spec

\* Both images of the file and the records of its history have their types,
\* whatever the page, the blob and the models.
THEOREM TypeCorrect == Spec => []TypeOK
  <1>1. IInv => TypeOK
    BY DEF IInv
  <1> QED  BY <1>1, Invariance, PTL

\* A vault the engine opens was shattered to the end, or was opened by force:
\* a killed shatter_moe.py leaves none that reads.
THEOREM OpenedVaultWhole == Spec => []OpenedIsWhole
  <1>1. IInv => OpenedIsWhole
    BY SMT DEF IInv, WholeInv, OpenedIsWhole, Opens, BlockOk
  <1> QED  BY <1>1, Invariance, PTL

\* upgrade_vault_v2.py leaves a safe vault safe at every instant.
THEOREM UpgradeSafe == Spec => []UpgradeCrashSafe
  <1>1. IInv => UpgradeCrashSafe
    BY SMT DEF IInv, UpgradeInv, UpgradeCrashSafe, Accepted, Opens
  <1> QED  BY <1>1, Invariance, PTL

\* The arch block never overlaps the tables nor the blobs.
THEOREM BlockPlaced == Spec => []BlockInGap
  <1>1. IInv => BlockInGap
    <2> SUFFICES ASSUME IInv, cache.block # 0, Sound
                 PROVE  /\ TablesEnd(cache.tables.total) <= cache.block
                        /\ cache.block + ArchSize <= model.base
      BY DEF BlockInGap, Sound
    <2>1. /\ cache.tables.total \in {0, Listed} /\ cache.pages # 0
          /\ TablesEnd(Listed) <= cache.block /\ cache.block + ArchSize <= model.base
      BY DEF IInv, SoundInv, BlockInv, InGap
    <2>2. Listed \in Nat /\ cache.block \in Nat
      BY <2>1, WrittenBounds DEF IInv, TypeOK, Files
    <2>3. TablesEnd(cache.tables.total) <= TablesEnd(Listed)
      BY <2>1, <2>2, SMT DEF TablesEnd, HeaderSize, EntrySize, DescsSize
    <2> QED  BY <2>1, <2>2, <2>3, SMT DEF TablesEnd, HeaderSize, EntrySize, DescsSize
  <1> QED  BY <1>1, Invariance, PTL

\* A completed recovery lists experts that are there to be read, and exactly the
\* complete ones, in their places, if it finds the offset they were written at.
THEOREM RecoveryExact == Spec => []RecoveredExactly
  <1>1. IInv => RecoveredExactly
    <2> SUFFICES ASSUME IInv, headBy = "recovered", ~lost, ~Miscounted
                 PROVE  /\ cache.header.dataOff + cache.header.total * BlobSize <= Size(cache)
                        /\ cache.header.dataOff = model.base =>
                             Right(cache) /\ cache.header.total = Blobs(cache)
      BY DEF RecoveredExactly
    <2>1. /\ cache.pages # 0 /\ cache.header.total = Written
          /\ cache.header.dataOff = RecoveredBase
          /\ cache.tables = [total |-> Written, base |-> RecoveredBase]
      BY DEF IInv, RecoveryInv
    <2>2. model.n = model.all
      BY DEF Miscounted
    <2>3. /\ Written \in Nat
          /\ RecoveredBase + Written * BlobSize <= Size(cache)
          /\ model.base = RecoveredBase => Written = Blobs(cache)
      BY <2>1, <2>2, WrittenBounds DEF IInv
    <2> QED  BY <2>1, <2>3, SMT DEF Right
  <1> QED  BY <1>1, Invariance, PTL

\* After such a recovery the blobs need not be written again.
THEOREM RecoveryUsable == Spec => []RecoveredUsable
  <1>1. IInv => RecoveredUsable
    <2> SUFFICES ASSUME IInv, headBy = "recovered", ~lost, ~Miscounted,
                        cache.header.dataOff = model.base, model.gap, Blobs(cache) > 0
                 PROVE  Opens(cache) \/ Slot(cache.header, TRUE) # 0
      BY DEF RecoveredUsable
    <2> DEFINE h == cache.header
    <2>1. /\ cache.pages # 0 /\ h.version \in {1, 2}
          /\ h.total = Written /\ h.dataOff = RecoveredBase
      BY SMT DEF IInv, RecoveryInv, TypeOK, Files, Headers
    <2>2. model.n = model.all
      BY DEF Miscounted
    <2>3. RecoveredBase = DataOffset(model.n)
      BY <2>1, SMT DEF IInv, LayoutInv
    <2>4. model.n \in Nat /\ Written \in Nat /\ Written <= model.n
      BY <2>1, <2>2, WrittenBounds DEF IInv, TypeOK
    <2>5. CASE h.version = 1
      <3>1. /\ TablesEnd(Written) \in Nat /\ TablesEnd(model.n) \in Nat
            /\ TablesEnd(Written) <= TablesEnd(model.n)
        BY <2>4, SMT DEF TablesEnd, HeaderSize, EntrySize, DescsSize
      <3>2. ArchOffset(Written) <= ArchOffset(model.n)
        BY <3>1, AlignUpMonotonic DEF ArchOffset
      <3>3. /\ ArchOffset(Written) \in Nat \ {0} /\ ArchOffset(model.n) \in Nat
            /\ ArchOffset(model.n) + ArchSize <= DataOffset(model.n)
            /\ DataOffset(model.n) \in Nat
        BY <2>4, Offsets
      <3>4. ArchOffset(Written) + ArchSize <= h.dataOff
        BY <2>1, <2>3, <3>2, <3>3, SMT DEF ArchSize
      <3> QED  BY <2>1, <2>5, <3>3, <3>4 DEF Slot
    <2>6. CASE h.version = 2
      <3>1. Sound
        BY DEF Sound
      <3>2. h.ext # 0 /\ h.ext + ArchSize <= h.dataOff
        BY <2>1, <2>6, <3>1 DEF IInv, SoundInv, HeaderInv, BlockInv, InGap
      <3> QED  BY <2>6, <3>2, SMT DEF Slot
    <2> QED  BY <2>1, <2>5, <2>6
  <1> QED  BY <1>1, Invariance, PTL
=============================================================================
