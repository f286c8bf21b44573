------------------------------ MODULE PStorage ------------------------------
(***************************************************************************)
(* The page store of src/embedded/pstorage.cpp on the EEPROM of            *)
(* eeprom.cpp: page 0 holds the meta data, the next MAX_NUM_MODULES pages  *)
(* the table of modules, and a copy of both is kept in RAM.                *)
(*                                                                         *)
(* A page is written and flushed by one call of eeprom_write; between two  *)
(* calls the program may be killed (Crash), and a call may fail, after     *)
(* which the stream is no longer good and every further call fails until   *)
(* the program is started again.  What a page holds is kept as far as the  *)
(* tables read it: the text of a block is "data".                          *)
(*                                                                         *)
(* A program uses the modules it created itself in this run, and those of  *)
(* earlier runs whose table page no block lies over.  Calls that return    *)
(* an error without changing anything, and pstorage_read_blk, are no steps.*)
(***************************************************************************)
EXTENDS Naturals

CONSTANTS
    MAX_NUM_MODULES,
    NumBlks, BlkSizes,      \* arguments of pstorage_module_create
    Blks,                   \* the blocks that are written
    LastPage                \* bound: the pages of the EEPROM

PAGE_SIZE_IN_BYTES == 8
PSTORAGE_META_PAGE_OFFSET == 0
MODULE_INFO_PAGE_OFFSET == 1
MAX_BLK_SIZE_IN_BYTES == 128

Mods == 0 .. MAX_NUM_MODULES - 1
Pages == 0 .. LastPage

\* A block size is rounded up to whole pages.
Aligned(size) ==
    ((size + PAGE_SIZE_IN_BYTES - 1) \div PAGE_SIZE_IN_BYTES) * PAGE_SIZE_IN_BYTES

AlignedSizes ==
    {Aligned(size) : size \in BlkSizes} \cap 0 .. MAX_BLK_SIZE_IN_BYTES

\* The address is cut to a page: that a module starts within one is forgotten.
FirstPage(start, size, blk) == (start + size * blk) \div PAGE_SIZE_IN_BYTES

\* The info page of the module is never under a block that is written.
Clear(m) ==
    \A start \in Mods, size \in AlignedSizes, blk \in Blks :
      MODULE_INFO_PAGE_OFFSET + m \notin
        {FirstPage(start, size, blk) + i : i \in 0 .. size \div PAGE_SIZE_IN_BYTES - 1}

ClearMods == {m \in Mods : Clear(m)}

ASSUME PStorageAssumption ==
    /\ MAX_NUM_MODULES \in Nat \ {0}
    /\ NumBlks \subseteq Nat /\ BlkSizes \subseteq Nat \ {0} /\ Blks \subseteq Nat
    /\ LastPage \in Nat /\ MAX_NUM_MODULES <= LastPage

\* Nobody writes block 0, which lies over the meta page.
ASSUME BlocksAssumption ==
    \A start \in Mods, size \in AlignedSizes, blk \in Blks :
      \A i \in 0 .. size \div PAGE_SIZE_IN_BYTES - 1 :
        FirstPage(start, size, blk) + i \in Pages \ {PSTORAGE_META_PAGE_OFFSET}

VARIABLES
    page,           \* the EEPROM
    next, info,     \* pstorage_cache: next_free_mod, mod_info
    pc,             \* the call that is under way
    step,           \* pages it has written
    mod, blk,       \* the module and the block it is about
    good,           \* is the stream of the EEPROM still good?
    given,          \* ids that were ever returned by pstorage_module_create
    session         \* those returned in this run of the program

storeVars == <<page>>
cacheVars == <<next, info>>
callVars == <<pc, step, mod, blk>>
idVars == <<given, session>>
vars == <<storeVars, cacheVars, callVars, good, idVars>>

-----------------------------------------------------------------------------
\* What a page can hold.

Data == [kind |-> "data"]
Meta(n) == [kind |-> "meta", next |-> n]
Info(alloc, open, start, blks, size) ==
    [kind |-> "info", allocated |-> alloc, open |-> open,
     start |-> start, num_blks |-> blks, blk_size |-> size]

\* A page of zeroes, read as an info page: not allocated.
Zero == Info(FALSE, FALSE, 0, 0, 0)

ModInfos ==
    [kind : {"info"}, allocated : {TRUE}, open : BOOLEAN, start : Mods,
     num_blks : 0 .. 255, blk_size : AlignedSizes]

Infos == {Zero} \cup ModInfos
Metas == {Meta(n) : n \in 0 .. MAX_NUM_MODULES}

\* Is the module of an info page allocated?  The text of main() is, when read
\* as one.
Allocated(c) == c.kind = "data" \/ (c.kind = "info" /\ c.allocated)

InfoPage(m) == page[MODULE_INFO_PAGE_OFFSET + m]

\* The signature of the meta page.
Formatted == page[PSTORAGE_META_PAGE_OFFSET].kind = "meta"

StoredNext == IF Formatted THEN page[PSTORAGE_META_PAGE_OFFSET].next ELSE 0
StoredModules == {m \in ClearMods : Allocated(InfoPage(m))}

TypeOK ==
    /\ page \in [Pages -> {Data} \cup Infos \cup Metas]
    /\ \A p \in Pages : page[p] \in Metas => p = PSTORAGE_META_PAGE_OFFSET
    /\ page[PSTORAGE_META_PAGE_OFFSET] # Data
    /\ next \in 0 .. MAX_NUM_MODULES /\ info \in [Mods -> {Data} \cup Infos]
    /\ pc \in {"off", "burn", "idle", "create", "write"}
    /\ step \in Nat
    /\ mod \in Mods /\ blk \in Nat
    /\ good \in BOOLEAN
    /\ session \subseteq given /\ given \subseteq Mods

\* A new EEPROM file, all zeroes.
Init ==
    /\ page = [p \in Pages |-> Zero]
    /\ next = 0 /\ info = [m \in Mods |-> Zero]
    /\ pc = "off" /\ step = 0 /\ mod = 0 /\ blk = 0
    /\ good = TRUE
    /\ given = {} /\ session = {}

-----------------------------------------------------------------------------
\* The end of a call: its variables are gone.
Return(to) == pc' = to /\ step' = 0 /\ mod' = 0 /\ blk' = 0

\* The EEPROM.

\* A call of eeprom_write that succeeds.
EepromWrite(p, c) ==
    /\ good
    /\ page' = [page EXCEPT ![p] = c]
    /\ UNCHANGED good

\* One that fails, whether the page has been written or not.
EepromWriteFails(p, c) ==
    /\ \/ good /\ page' = [page EXCEPT ![p] = c]
       \/ UNCHANGED page
    /\ good' = FALSE

\* Mutant: only the meta page is read.
CacheMetaOnly(store) ==
    /\ next' = store[PSTORAGE_META_PAGE_OFFSET].next
    /\ info' = [m \in Mods |-> Zero]

\* Mutant: next_free_mod is not read back.
CacheInfoOnly(store) ==
    /\ next' = 0
    /\ info' = [m \in Mods |-> store[MODULE_INFO_PAGE_OFFSET + m]]

CachePstorageInRam(store) ==
    /\ next' = store[PSTORAGE_META_PAGE_OFFSET].next
    /\ info' = [m \in Mods |-> store[MODULE_INFO_PAGE_OFFSET + m]]

-----------------------------------------------------------------------------
\* pstorage_init

\* Mutant: formats although the signature is there.
InitAlwaysBurns ==
    /\ pc = "off" /\ pc' = "burn" /\ good' = TRUE
    /\ UNCHANGED <<storeVars, cacheVars, step, mod, blk, idVars>>

PstorageInit ==
    /\ pc = "off"
    /\ IF Formatted
         THEN pc' = "idle" /\ CachePstorageInRam(page)
         ELSE pc' = "burn" /\ UNCHANGED cacheVars
    /\ good' = TRUE
    /\ UNCHANGED <<storeVars, step, mod, blk, idVars>>

\* The meta page first, then the info pages.
BurntPage == IF step = 0 THEN Meta(0) ELSE Zero

PstorageBurn ==
    /\ pc = "burn"
    /\ EepromWrite(step, BurntPage)
    /\ IF step = MAX_NUM_MODULES
         THEN Return("idle") /\ CachePstorageInRam(page')
         ELSE step' = step + 1 /\ UNCHANGED <<pc, mod, blk, cacheVars>>
    /\ UNCHANGED idVars

PstorageBurnFails ==
    /\ pc = "burn" /\ Return("off")
    /\ EepromWriteFails(step, BurntPage)
    /\ UNCHANGED <<cacheVars, idVars>>

-----------------------------------------------------------------------------
\* pstorage_module_create

\* Mutant: no bound on the number of modules.
CreateUnbounded(blks, size) ==
    /\ pc = "idle" /\ Aligned(size) <= MAX_BLK_SIZE_IN_BYTES
    /\ info' = [info EXCEPT ![next] =
                  Info(TRUE, FALSE, next, blks % 256, Aligned(size))]
    /\ next' = next + 1
    /\ pc' = "create" /\ mod' = next
    /\ UNCHANGED <<storeVars, step, blk, good, idVars>>

\* num_blks is kept in a byte.  The start is the number of the module.
PstorageModuleCreate(blks, size) ==
    /\ pc = "idle"
    /\ next < MAX_NUM_MODULES /\ Aligned(size) <= MAX_BLK_SIZE_IN_BYTES
    /\ info' = [info EXCEPT ![next] =
                  Info(TRUE, FALSE, next, blks % 256, Aligned(size))]
    /\ next' = next + 1
    /\ pc' = "create" /\ mod' = next
    /\ UNCHANGED <<storeVars, step, blk, good, idVars>>

\* The meta page first, then the info pages, all from the cache.
SyncedPage ==
    IF step = 0 THEN Meta(next) ELSE info[step - MODULE_INFO_PAGE_OFFSET]

\* Mutant: the info pages before the meta page.
SyncedPageOfMetaLast ==
    IF step = MAX_NUM_MODULES THEN Meta(next) ELSE info[step]

SyncMetaLast ==
    /\ pc = "create"
    /\ EepromWrite((step + 1) % (MAX_NUM_MODULES + 1), SyncedPageOfMetaLast)
    /\ IF step = MAX_NUM_MODULES
         THEN /\ Return("idle")
              /\ given' = given \cup {mod} /\ session' = session \cup {mod}
         ELSE step' = step + 1 /\ UNCHANGED <<pc, mod, blk, idVars>>
    /\ UNCHANGED cacheVars

\* sync_cache_to_storage, and the id is returned when all is written.
SyncCacheToStorage ==
    /\ pc = "create"
    /\ EepromWrite(step, SyncedPage)
    /\ IF step = MAX_NUM_MODULES
         THEN /\ Return("idle")
              /\ given' = given \cup {mod} /\ session' = session \cup {mod}
         ELSE step' = step + 1 /\ UNCHANGED <<pc, mod, blk, idVars>>
    /\ UNCHANGED cacheVars

SyncFails ==
    /\ pc = "create" /\ Return("idle")
    /\ EepromWriteFails(step, SyncedPage)
    /\ UNCHANGED <<cacheVars, idVars>>

-----------------------------------------------------------------------------
\* pstorage_module_open, pstorage_module_close, pstorage_write_blk

Usable(m) == m \in session \cup (given \cap ClearMods)

\* Only the cache is told.
PstorageModuleOpen(m) ==
    /\ pc = "idle" /\ Usable(m) /\ Allocated(info[m])
    /\ info' = [info EXCEPT ![m].open = TRUE]
    /\ UNCHANGED <<storeVars, next, callVars, good, idVars>>

PstorageModuleClose(m) ==
    /\ pc = "idle" /\ Usable(m) /\ Allocated(info[m]) /\ info[m].open
    /\ info' = [info EXCEPT ![m].open = FALSE]
    /\ UNCHANGED <<storeVars, next, callVars, good, idVars>>

PstorageWriteBlk(m, b) ==
    /\ pc = "idle" /\ Usable(m) /\ info[m].open
    /\ b < info[m].num_blks
    /\ pc' = "write" /\ mod' = m /\ blk' = b
    /\ UNCHANGED <<storeVars, cacheVars, step, good, idVars>>

BlkPage == FirstPage(info[mod].start, info[mod].blk_size, blk) + step
BlkDone == step = info[mod].blk_size \div PAGE_SIZE_IN_BYTES

WriteBlkPage ==
    /\ pc = "write" /\ ~ BlkDone
    /\ EepromWrite(BlkPage, Data)
    /\ step' = step + 1
    /\ UNCHANGED <<cacheVars, pc, mod, blk, idVars>>

WriteBlkFails ==
    /\ pc = "write" /\ ~ BlkDone /\ Return("idle")
    /\ EepromWriteFails(BlkPage, Data)
    /\ UNCHANGED <<cacheVars, idVars>>

WriteBlkReturns ==
    /\ pc = "write" /\ BlkDone /\ Return("idle")
    /\ UNCHANGED <<storeVars, cacheVars, good, idVars>>

-----------------------------------------------------------------------------
\* pstorage_deinit and the end of the program, or its death.
Crash ==
    /\ pc # "off" /\ Return("off")
    /\ next' = 0 /\ info' = [m \in Mods |-> Zero]
    /\ good' = TRUE /\ session' = {}
    /\ UNCHANGED <<storeVars, given>>

Next ==
    \/ PstorageInit \/ PstorageBurn \/ PstorageBurnFails
    \/ \E blks \in NumBlks, size \in BlkSizes : PstorageModuleCreate(blks, size)
    \/ SyncCacheToStorage \/ SyncFails
    \/ \E m \in Mods :
         \/ PstorageModuleOpen(m) \/ PstorageModuleClose(m)
         \/ \E b \in Blks : PstorageWriteBlk(m, b)
    \/ WriteBlkPage \/ WriteBlkFails \/ WriteBlkReturns
    \/ Crash

Spec == Init /\ [][Next]_vars

-----------------------------------------------------------------------------
\* A module whose id was returned is in the table of the EEPROM, whatever
\* happened since: failed writes, program runs killed at any page.
\* (pstorage_module_create returns after sync_cache_to_storage.)
CreatedIsDurable == given \cap ClearMods \subseteq StoredModules

\* An id is never returned twice, not even by two runs of the program.
\* (next_free_mod is in the meta page, written before anything else.)
IdsAreUnique ==
    [][pc = "create" /\ pc' = "idle" /\ good' => mod \notin given]_vars

\* A module in the table has an id below the next free one that the meta page
\* holds: pstorage_module_create never takes an info page that is in use.
TableIsBelowNext == \A m \in StoredModules : m < StoredNext

\* Between calls, and as long as the EEPROM works, the copy in RAM says the
\* same of the modules as the EEPROM: a restart would change nothing.
\* (cache_pstorage_in_ram, sync_cache_to_storage.)
CacheIsCurrent ==
    pc = "idle" /\ good =>
      /\ next = StoredNext
      /\ {m \in ClearMods : Allocated(info[m])} = StoredModules

\* What makes them inductive.

\* What the two tables say of a module, and the pages of the followed modules.
OnlyInfos == \A m \in ClearMods : InfoPage(m) \in Infos /\ info[m] \in Infos

SameModules == \A m \in ClearMods : Allocated(InfoPage(m)) <=> Allocated(info[m])

Empty == given = {} /\ \A m \in ClearMods : ~ Allocated(InfoPage(m))

\* Until the meta page is written there is no module.
Unformatted == ~ Formatted => pc \in {"off", "burn"} /\ Empty

Burning ==
    pc = "burn" =>
      /\ step <= MAX_NUM_MODULES /\ (Formatted <=> step # 0)
      /\ StoredNext = 0 /\ Empty

IdsAreBelowNext == \A m \in given : m < StoredNext

Current == pc \in {"idle", "write"} /\ good => next = StoredNext /\ SameModules

\* What create has written so far.
Creating ==
    pc = "create" /\ good =>
      /\ next = mod + 1 /\ step <= MAX_NUM_MODULES
      /\ StoredNext = IF step = 0 THEN mod ELSE mod + 1
      /\ mod \notin given
      /\ \A m \in ClearMods :
           Allocated(InfoPage(m)) <=>
             Allocated(info[m]) /\ (m = mod => step > m + MODULE_INFO_PAGE_OFFSET)

\* The modules that may be opened have a proper entry in the copy.
Opening ==
    /\ pc \in {"off", "burn"} => session = {}
    /\ pc \in {"idle", "create", "write"} => \A m \in Mods : Usable(m) => info[m] \in ModInfos
    /\ pc = "create" => info[mod] \in ModInfos
    /\ pc = "write" => /\ info[mod] \in ModInfos /\ blk \in Blks
                       /\ step <= info[mod].blk_size \div PAGE_SIZE_IN_BYTES

StepReset == pc \in {"off", "idle"} => step = 0

IInv ==
    /\ StepReset /\ TypeOK /\ OnlyInfos /\ Unformatted /\ Burning
    /\ TableIsBelowNext /\ CreatedIsDurable /\ IdsAreBelowNext
    /\ Current /\ Creating /\ Opening

\* A write of a block leaves the meta page and the table alone: pstorage_burn
\* puts the next free address behind them, and the first page of a module is
\* FIRST_MODULE_PAGE_OFFSET.  (pstorage_module_create uses neither, and block 2,
\* which main() writes, lies over the last page of the table.)
TablesKept ==
    [][pc = "write" =>
         \A p \in 0 .. MAX_NUM_MODULES : page'[p] = page[p]]_vars

\* The table of modules as ModuleTable promises it.
Table == INSTANCE ModuleTable WITH
           Ids <- ClearMods, next <- StoredNext, modules <- StoredModules
TableSpec == Table!Spec
=============================================================================
