------------------------------- MODULE Vault -------------------------------
(***************************************************************************)
(* The vault file and the three scripts that write it: shatter_moe.py,     *)
(* which lays it out, upgrade_vault_v2.py, which stamps the arch block     *)
(* into the gap before the first blob, and recover_header.py, which        *)
(* rewrites the header and the tables of a vault whose shatter was killed. *)
(* The engine is the reader: what it checks before it runs a vault, and    *)
(* which bytes it then takes for an expert.                                *)
(*                                                                         *)
(* The file is four regions: header, tables (entries and descriptors),     *)
(* arch block, blobs.  `cache` is what every process sees, `disk` what a   *)
(* power failure leaves.  A script may be killed after any write; the      *)
(* system may write any region back at any time, and must at an fsync.     *)
(* Offsets are computed in bytes; blobs are counted in pages.              *)
(***************************************************************************)
EXTENDS Naturals

CONSTANTS Page,        \* PAGE_SIZE
          BlobPages,   \* padded size of an expert, in pages
          Counts       \* numbers of experts a checkpoint, or a part of one, may have

ASSUME LayoutAssumption ==
    /\ Page \in Nat /\ Page >= 128
    /\ BlobPages \in Nat \ {0}
    /\ Counts \subseteq Nat \ {0}

VARIABLES
    cache,     \* the file as processes see it
    disk,      \* the file as it is on disk
    tool,      \* the running script and its place
    model,     \* how the blobs were laid out: the number of experts, of those the
               \*   checkpoint has, the offset of the first, and whether room for the
               \*   arch block was reserved
    headBy,    \* which script wrote the header
    lost,      \* a power failure struck a vault that was not on disk
    forced,    \* a forced upgrade stamped a version 2 vault the engine refused
    wasOpen    \* the last upgrade found a vault the engine opens, on disk

vars == <<cache, disk, tool, model, headBy, lost, forced, wasOpen>>

----------------------------------------------------------------------------
(* Offsets *)

HeaderSize == 64
EntrySize == 48
DescsSize == 3 * 44
ArchSize == 128

AlignUp(x, a) == ((x + a - 1) \div a) * a

\* Where the tables of n experts end.
TablesEnd(n) == HeaderSize + n * EntrySize + n * DescsSize

ArchOffset(n) == AlignUp(TablesEnd(n), 64)

\* Where shatter_moe.py puts the first blob.
DataOffset(n) == AlignUp(ArchOffset(n) + ArchSize, Page)

\* Where it put the first blob before there was an arch block.
DataOffsetV1(n) == AlignUp(TablesEnd(n), Page)

----------------------------------------------------------------------------
(* The file *)

NoHeader == [version |-> 0, total |-> 0, dataOff |-> 0, ext |-> 0]
NoTables == [total |-> 0, base |-> 0]     \* zeros, or rows missing at the end
Truncated == [header |-> NoHeader, tables |-> NoTables, block |-> 0, pages |-> 0]

Regions == DOMAIN Truncated

\* Bytes in the file; the metadata is a hole until it is written.
Size(f) == IF f.pages = 0 THEN 0 ELSE model.base + f.pages * Page

Blobs(f) == f.pages \div BlobPages

\* The arch block the header points to can be read.
BlockOk(h, block) == h.ext # 0 /\ h.ext + ArchSize <= h.dataOff /\ block = h.ext

\* The engine's checks: read_vault_header, read_expert_layout, parse_vault.
Opens(f) ==
    /\ f.header.version \in {1, 2}
    /\ f.header.version = 2 => BlockOk(f.header, f.block)
    /\ f.header.total # 0

\* Every expert of the table is found at its own bytes.
Right(f) ==
    /\ f.tables = [total |-> f.header.total, base |-> model.base]
    /\ f.header.total <= Blobs(f)

----------------------------------------------------------------------------
(* Shatter *)

Idle == [at |-> "idle"]
Goto(l) == tool' = [tool EXCEPT !.at = l]

\* --max-layers and --max-experts leave n of the checkpoint's experts.
BeginShatter ==
    \E n, all \in Counts :
        /\ tool = Idle
        /\ n <= all
        /\ model' = [n |-> n, all |-> all, base |-> DataOffset(n), gap |-> TRUE]
        /\ cache' = Truncated
        /\ disk' = Truncated
        /\ tool' = [at |-> "blobs"]
        /\ headBy' = "none"
        /\ lost' = FALSE
        /\ forced' = FALSE
        /\ wasOpen' = FALSE

WriteBlob ==
    /\ tool.at = "blobs"
    /\ cache.pages < model.n * BlobPages
    /\ cache' = [cache EXCEPT !.pages = @ + 1]
    /\ UNCHANGED <<disk, tool, model, headBy, lost, forced, wasOpen>>

\* Mutant: the arch block is written with the header.
WriteHeadAndBlock ==
    /\ tool.at = "blobs"
    /\ cache.pages = model.n * BlobPages
    /\ cache' = [cache EXCEPT !.header = [version |-> 2, total |-> model.n,
                                          dataOff |-> model.base, ext |-> ArchOffset(model.n)],
                              !.block = ArchOffset(model.n)]
    /\ Goto("tables")
    /\ headBy' = "shatter"
    /\ UNCHANGED <<disk, model, lost, forced, wasOpen>>

\* The metadata is written through a buffer, in its order in the file: what is
\* there when the script is killed is a prefix that ends anywhere.
WriteHead ==
    /\ tool.at = "blobs"
    /\ cache.pages = model.n * BlobPages
    /\ cache' = [cache EXCEPT !.header = [version |-> 2, total |-> model.n,
                                          dataOff |-> model.base, ext |-> ArchOffset(model.n)]]
    /\ Goto("tables")
    /\ headBy' = "shatter"
    /\ UNCHANGED <<disk, model, lost, forced, wasOpen>>

WriteTables ==
    /\ tool.at = "tables"
    /\ cache' = [cache EXCEPT !.tables = [total |-> model.n, base |-> model.base]]
    /\ Goto("block")
    /\ UNCHANGED <<disk, model, headBy, lost, forced, wasOpen>>

WriteBlock ==
    /\ tool.at = "block"
    /\ cache' = [cache EXCEPT !.block = ArchOffset(model.n)]
    /\ tool' = Idle
    /\ UNCHANGED <<disk, model, headBy, lost, forced, wasOpen>>

----------------------------------------------------------------------------
(* Upgrade *)

\* Mutant: the room before the first blob is not checked.
SlotAnyRoom(h, force) ==
    IF h.version = 1 THEN ArchOffset(h.total) ELSE IF force THEN h.ext ELSE 0

\* The slot the block goes to; 0 where the script refuses.
Slot(h, force) ==
    IF h.version = 1
    THEN IF ArchOffset(h.total) + ArchSize <= h.dataOff THEN ArchOffset(h.total) ELSE 0
    ELSE IF h.version = 2 /\ force /\ h.ext + ArchSize <= h.dataOff THEN h.ext ELSE 0

BeginUpgrade ==
    \E force \in BOOLEAN :
        /\ tool = Idle
        /\ Slot(cache.header, force) # 0
        /\ tool' = [at |-> "stamp", slot |-> Slot(cache.header, force)]
        /\ wasOpen' = (Opens(cache) /\ disk = cache)
        /\ forced' = (forced \/ (cache.header.version = 2 /\ ~Opens(cache)))
        /\ UNCHANGED <<cache, disk, model, headBy, lost>>

Stamp ==
    /\ tool.at = "stamp"
    /\ cache' = [cache EXCEPT !.block = tool.slot]
    /\ Goto("sync1")
    /\ UNCHANGED <<disk, model, headBy, lost, forced, wasOpen>>

\* Mutant: flushed to the system, not to the disk.
FlushBlock ==
    /\ tool.at = "sync1"
    /\ Goto("ext")
    /\ UNCHANGED <<cache, disk, model, headBy, lost, forced, wasOpen>>

\* os.fsync: everything the process sees is on disk.
SyncBlock ==
    /\ tool.at = "sync1"
    /\ disk' = cache
    /\ Goto("ext")
    /\ UNCHANGED <<cache, model, headBy, lost, forced, wasOpen>>

PatchExt ==
    /\ tool.at = "ext"
    /\ cache' = [cache EXCEPT !.header.ext = tool.slot]
    /\ Goto("version")
    /\ UNCHANGED <<disk, model, headBy, lost, forced, wasOpen>>

PatchVersion ==
    /\ tool.at = "version"
    /\ cache' = [cache EXCEPT !.header.version = 2]
    /\ Goto("sync2")
    /\ UNCHANGED <<disk, model, headBy, lost, forced, wasOpen>>

SyncHeader ==
    /\ tool.at = "sync2"
    /\ disk' = cache
    /\ tool' = Idle
    /\ UNCHANGED <<cache, model, headBy, lost, forced, wasOpen>>

----------------------------------------------------------------------------
(* Recovery *)

BlobSize == BlobPages * Page

\* The offset of the first blob as recover_header.py computes it: without the
\* arch block, and for every expert of the checkpoint.
RecoveredBase == DataOffsetV1(model.all)

Complete == RecoveredBase + model.all * BlobSize

\* Mutant: a blob written in part counts as written.
WrittenInPart ==
    IF Size(cache) >= Complete THEN model.all
    ELSE IF Size(cache) >= RecoveredBase
         THEN AlignUp(Size(cache) - RecoveredBase, BlobSize) \div BlobSize
         ELSE 0

\* The experts it takes to be in the file.  A file shorter than its tables gives a
\* negative count, which drops experts from the end of the list.
Written ==
    IF Size(cache) >= Complete THEN model.all
    ELSE IF Size(cache) >= RecoveredBase
         THEN (Size(cache) - RecoveredBase) \div BlobSize
         ELSE LET dropped == AlignUp(RecoveredBase - Size(cache), BlobSize) \div BlobSize
              IN  IF dropped < model.all THEN model.all - dropped ELSE 0

\* The version and the block offset it keeps.
Kept(h) == IF h.version \in {1, 2} THEN [version |-> h.version, ext |-> h.ext]
                                   ELSE [version |-> 1, ext |-> 0]

\* A file without a header to read raises before anything is written.  (Rows past
\* the end of a file shorter than its tables make it longer; that is left out.)
RecoverHead ==
    /\ tool = Idle
    /\ Size(cache) # 0
    /\ LET rows == [total |-> Written, base |-> RecoveredBase]
           kept == Kept(cache.header)
       IN  /\ cache' = [header |-> [version |-> kept.version, total |-> rows.total,
                                      dataOff |-> rows.base, ext |-> kept.ext],
                         tables |-> IF cache.tables = rows THEN rows ELSE NoTables,
                         block |-> cache.block,
                         pages |-> cache.pages]
           /\ tool' = [at |-> "rows", rows |-> rows]
    /\ headBy' = "recovery"
    /\ wasOpen' = FALSE
    /\ UNCHANGED <<disk, model, lost, forced>>

RecoverRows ==
    /\ tool.at = "rows"
    /\ cache' = [cache EXCEPT !.tables = tool.rows]
    /\ tool' = Idle
    /\ headBy' = "recovered"
    /\ UNCHANGED <<disk, model, lost, forced, wasOpen>>

----------------------------------------------------------------------------
(* The machine *)

Writeback(r) ==
    /\ disk[r] # cache[r]
    /\ disk' = [disk EXCEPT ![r] = cache[r]]
    /\ UNCHANGED <<cache, tool, model, headBy, lost, forced, wasOpen>>

Kill ==
    /\ tool # Idle
    /\ tool' = Idle
    /\ UNCHANGED <<cache, disk, model, headBy, lost, forced, wasOpen>>

PowerFails ==
    /\ cache' = disk
    /\ tool' = Idle
    /\ lost' = (lost \/ (disk # cache /\ ~wasOpen))
    /\ UNCHANGED <<disk, model, headBy, forced, wasOpen>>

\* No vault yet, or one laid out before the format had an arch block.
Init ==
    /\ \/ /\ model = [n |-> 0, all |-> 0, base |-> 0, gap |-> FALSE]
          /\ cache = Truncated
          /\ headBy = "none"
       \/ \E n, all \in Counts :
            /\ n <= all
            /\ model = [n |-> n, all |-> all, base |-> DataOffsetV1(n), gap |-> FALSE]
            /\ cache = [header |-> [version |-> 1, total |-> n, dataOff |-> model.base, ext |-> 0],
                        tables |-> [total |-> n, base |-> model.base],
                        block |-> 0,
                        pages |-> n * BlobPages]
            /\ headBy = "shatter"
    /\ disk = cache
    /\ tool = Idle
    /\ lost = FALSE
    /\ forced = FALSE
    /\ wasOpen = FALSE

Shatter == BeginShatter \/ WriteBlob \/ WriteHead \/ WriteTables \/ WriteBlock
Upgrade == BeginUpgrade \/ Stamp \/ SyncBlock \/ PatchExt \/ PatchVersion \/ SyncHeader
Recover == RecoverHead \/ RecoverRows

Next ==
    \/ Shatter \/ Upgrade \/ Recover
    \/ \E r \in Regions : Writeback(r)
    \/ Kill
    \/ PowerFails

Spec == Init /\ [][Next]_vars

----------------------------------------------------------------------------
(* Properties *)

Headers == [version : 0..2, total : Nat, dataOff : Nat, ext : Nat]
Files == [header : Headers, tables : [total : Nat, base : Nat], block : Nat, pages : Nat]

Tools ==
    {Idle} \cup [at : {"blobs", "tables", "block"}]
           \cup [at : {"stamp", "sync1", "ext", "version", "sync2"}, slot : Nat \ {0}]
           \cup [at : {"rows"}, rows : [total : Nat, base : Nat]]

\* Both images of the file and the records of its history have their types.
TypeOK ==
    /\ cache \in Files
    /\ disk \in Files
    /\ tool \in Tools
    /\ model \in [n : Nat, all : Nat, base : Nat, gap : BOOLEAN]
    /\ headBy \in {"none", "shatter", "recovery", "recovered"}
    /\ lost \in BOOLEAN
    /\ forced \in BOOLEAN
    /\ wasOpen \in BOOLEAN

\* A vault whose shatter was killed is refused by the engine, until it is forced
\* to version 2; one that it opens, upgraded or not, serves every expert of its
\* table from that expert's bytes.
OpenedIsWhole == headBy = "shatter" /\ ~lost /\ ~forced /\ Opens(cache) => Right(cache)

\* An upgrade of a vault that is safe on disk leaves one the engine opens, as
\* version 1 or 2, wherever it is killed and whatever a power failure leaves.
UpgradeCrashSafe == wasOpen => Opens(cache) /\ Opens(disk)

\* The header was recovered with the experts of a checkpoint that the vault holds
\* only a part of.
Miscounted == headBy \in {"recovery", "recovered"} /\ model.n # model.all

\* A block a script writes lies after the tables and before the first blob, unless
\* the tables are those of a miscounted recovery.
BlockInGap ==
    cache.block # 0 /\ ~lost /\ ~Miscounted =>
        /\ TablesEnd(cache.tables.total) <= cache.block
        /\ cache.block + ArchSize <= model.base

\* A completed recovery lists only experts that can be read to their end, wherever
\* the script was killed that wrote them; and if it finds the offset they were
\* written at, it serves all that are complete, each from its own bytes.
RecoveredExactly ==
    headBy = "recovered" /\ ~lost /\ ~Miscounted =>
        /\ cache.header.dataOff + cache.header.total * BlobSize <= Size(cache)
        /\ cache.header.dataOff = model.base =>
             Right(cache) /\ cache.header.total = Blobs(cache)

\* Such a recovery of a vault with room for the block can be opened at once, or
\* after an upgrade: its blobs need not be written again.
RecoveredUsable ==
    /\ headBy = "recovered" /\ tool = Idle /\ ~lost /\ ~Miscounted
    /\ cache.header.dataOff = model.base /\ model.gap /\ Blobs(cache) > 0
    => Opens(cache) \/ Slot(cache.header, TRUE) # 0
=============================================================================
