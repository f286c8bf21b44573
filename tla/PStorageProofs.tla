--------------------------- MODULE PStorageProofs ---------------------------
(***************************************************************************)
(* Proofs, for any number of modules, any blocks that miss the meta page   *)
(* and any number of program runs killed at any page, that a created       *)
(* module lasts, that no id is returned twice and that the store keeps     *)
(* the promises of ModuleTable.                                            *)
(***************************************************************************)
EXTENDS PStorage, TLAPS

USE DEF PAGE_SIZE_IN_BYTES, PSTORAGE_META_PAGE_OFFSET, MODULE_INFO_PAGE_OFFSET

-----------------------------------------------------------------------------
\* What pages hold.

LEMMA Contents ==
    /\ Zero \in Infos /\ ~ Allocated(Zero) /\ Zero.kind # "meta" /\ Zero # Data
    /\ Data \notin Infos /\ Data \notin Metas /\ Allocated(Data)
    /\ \A c \in Infos : c.kind # "meta" /\ c \notin Metas /\ (Allocated(c) <=> c \in ModInfos)
    /\ ModInfos \subseteq Infos
    /\ \A n \in 0 .. MAX_NUM_MODULES :
         Meta(n) \in Metas /\ Meta(n).kind = "meta" /\ Meta(n).next = n
    /\ \A c \in Metas : c.kind = "meta" /\ c.next \in 0 .. MAX_NUM_MODULES /\ c # Data
<1>1. Zero.kind = "info" /\ Zero.allocated = FALSE /\ Data.kind = "data"
  BY DEF Zero, Info, Data
<1>2. \A c \in ModInfos : c.kind = "info" /\ c.allocated = TRUE
  BY DEF ModInfos
<1>3. \A n \in 0 .. MAX_NUM_MODULES : Meta(n).kind = "meta" /\ Meta(n).next = n
  BY DEF Meta
<1>4. \A c \in Metas : \E n \in 0 .. MAX_NUM_MODULES : c = Meta(n)
  BY DEF Metas
<1>5. \A n \in 0 .. MAX_NUM_MODULES : Meta(n) \in Metas
  BY DEF Metas
<1>6. \A c \in Infos : c = Zero \/ c \in ModInfos
  BY DEF Infos
<1>7. Zero \in Infos /\ ModInfos \subseteq Infos
  BY DEF Infos
<1> HIDE DEF Zero, Info, Infos, ModInfos, Metas, Meta, Data
<1>8. Allocated(Data) /\ ~ Allocated(Zero) /\ \A c \in ModInfos : Allocated(c)
  BY <1>1, <1>2 DEF Allocated
<1>9. \A c \in Metas : c.kind = "meta" /\ c.next \in 0 .. MAX_NUM_MODULES
  BY <1>3, <1>4
<1>10. \A c \in Infos : c.kind = "info"
  BY <1>1, <1>2, <1>6
<1>11. Data \notin Infos /\ Data \notin Metas
  BY <1>1, <1>9, <1>10
<1>12. \A c \in Infos : c.kind # "meta" /\ c \notin Metas
  BY <1>9, <1>10
<1>13. \A c \in Infos : Allocated(c) <=> c \in ModInfos
  BY <1>6, <1>8
<1>14. Zero.kind # "meta" /\ Zero # Data /\ \A c \in Metas : c # Data
  BY <1>1, <1>9
<1> QED
  BY <1>3, <1>5, <1>7, <1>8, <1>9, <1>11, <1>12, <1>13, <1>14

LEMMA Modules ==
    /\ ClearMods \subseteq Mods /\ 0 \in Pages /\ 0 \in Mods
    /\ MAX_NUM_MODULES \in Nat \ {0}
    /\ \A m \in Mods : m \in Nat /\ m < MAX_NUM_MODULES /\ m + 1 \in Pages \ {0}
BY PStorageAssumption DEF ClearMods, Mods, Pages

LEMMA Created ==
    ASSUME NEW blks \in NumBlks, NEW size \in BlkSizes, NEW m \in Mods,
           Aligned(size) <= MAX_BLK_SIZE_IN_BYTES
    PROVE  Info(TRUE, FALSE, m, blks % 256, Aligned(size)) \in ModInfos
<1>1. Aligned(size) \in Nat
  BY PStorageAssumption DEF Aligned
<1>2. Aligned(size) \in AlignedSizes
  BY <1>1 DEF AlignedSizes, MAX_BLK_SIZE_IN_BYTES
<1>3. blks % 256 \in 0 .. 255
  BY PStorageAssumption
<1> QED
  BY <1>2, <1>3 DEF Info, ModInfos

\* To open or to close a module is all its entry in the copy lives through.
LEMMA Opened ==
    ASSUME NEW c \in ModInfos, NEW o \in BOOLEAN
    PROVE  [c EXCEPT !.open = o] \in ModInfos
BY DEF ModInfos

\* A block that is written misses the meta page and the followed modules.
LEMMA BlockMissesTables ==
    ASSUME Opening, pc = "write", ~ BlkDone, step \in Nat
    PROVE  /\ BlkPage \in Pages \ {0}
           /\ \A m \in ClearMods : BlkPage # m + 1
           /\ step + 1 <= info[mod].blk_size \div 8
<1> DEFINE size == info[mod].blk_size  start == info[mod].start
<1>1. size \in AlignedSizes /\ start \in Mods /\ blk \in Blks
  BY DEF Opening, ModInfos
<1>2. size \in Nat /\ step <= size \div 8 /\ step # size \div 8
  BY <1>1 DEF Opening, BlkDone, AlignedSizes, MAX_BLK_SIZE_IN_BYTES
<1>3. step \in 0 .. size \div 8 - 1 /\ step + 1 <= size \div 8
  BY <1>2
<1>4. BlkPage = FirstPage(start, size, blk) + step
  BY DEF BlkPage
<1> HIDE DEF size, start
<1>5. BlkPage \in Pages \ {0}
  BY <1>1, <1>3, <1>4, BlocksAssumption
<1>6. ASSUME NEW m \in ClearMods PROVE BlkPage # m + 1
  <2>1. 1 + m \notin {FirstPage(start, size, blk) + i : i \in 0 .. size \div 8 - 1}
    BY <1>1 DEF ClearMods, Clear
  <2>2. 1 + m = m + 1
    BY Modules
  <2> QED
    BY <1>3, <1>4, <2>1, <2>2
<1> QED
  BY <1>3, <1>5, <1>6 DEF size

-----------------------------------------------------------------------------
\* What a write of one page changes.

LEMMA PageWritten ==
    ASSUME TypeOK, NEW p \in Pages, NEW c, page' = [page EXCEPT ![p] = c]
    PROVE  /\ \A q \in Pages : page'[q] = IF q = p THEN c ELSE page[q]
           /\ \A m \in Mods : InfoPage(m)' = IF m + 1 = p THEN c ELSE InfoPage(m)
<1>1. \A q \in Pages : page'[q] = IF q = p THEN c ELSE page[q]
  BY DEF TypeOK
<1>2. ASSUME NEW m \in Mods
      PROVE  InfoPage(m)' = IF m + 1 = p THEN c ELSE InfoPage(m)
  <2>1. m + 1 = 1 + m /\ m + 1 \in Pages
    BY Modules
  <2> QED
    BY <1>1, <2>1 DEF InfoPage
<1> QED
  BY <1>1, <1>2

LEMMA PageTypes ==
    ASSUME TypeOK, NEW p \in Pages, NEW c \in {Data} \cup Infos \cup Metas,
           page' = [page EXCEPT ![p] = c],
           c \in Metas => p = 0, p = 0 => c # Data
    PROVE  /\ page' \in [Pages -> {Data} \cup Infos \cup Metas]
           /\ \A q \in Pages : page'[q] \in Metas => q = 0
           /\ page'[0] # Data
<1>1. \A q \in Pages : page'[q] = IF q = p THEN c ELSE page[q]
  BY PageWritten
<1> QED
  BY <1>1, Modules DEF TypeOK

\* A page that is neither the meta page nor that of a followed module.
LEMMA OtherPage ==
    ASSUME TypeOK, NEW p \in Pages \ {0}, NEW c, page' = [page EXCEPT ![p] = c],
           \A m \in ClearMods : p # m + 1
    PROVE  /\ page'[0] = page[0] /\ (Formatted' <=> Formatted) /\ StoredNext' = StoredNext
           /\ \A m \in ClearMods : InfoPage(m)' = InfoPage(m)
           /\ StoredModules' = StoredModules
<1>1. page'[0] = page[0]
  BY Modules, PageWritten
<1>2. \A m \in ClearMods : InfoPage(m)' = InfoPage(m)
  BY Modules, PageWritten
<1>3. StoredModules' = StoredModules
  BY <1>2 DEF StoredModules, Allocated
<1> QED
  BY <1>1, <1>2, <1>3 DEF Formatted, StoredNext

\* The meta page tells only the next id.
LEMMA MetaPage ==
    ASSUME TypeOK, NEW n \in 0 .. MAX_NUM_MODULES, page' = [page EXCEPT ![0] = Meta(n)]
    PROVE  /\ Formatted' /\ StoredNext' = n
           /\ \A m \in Mods : InfoPage(m)' = InfoPage(m)
           /\ StoredModules' = StoredModules
<1>0. /\ \A q \in Pages : page'[q] = IF q = 0 THEN Meta(n) ELSE page[q]
      /\ \A m \in Mods : InfoPage(m)' = IF m + 1 = 0 THEN Meta(n) ELSE InfoPage(m)
  BY Modules, PageWritten
<1>1. page'[0] = Meta(n)
  BY <1>0, Modules
<1>2. \A m \in Mods : InfoPage(m)' = InfoPage(m)
  BY <1>0, Modules
<1>3. StoredModules' = StoredModules
  BY <1>2, Modules DEF StoredModules, Allocated
<1> QED
  BY <1>1, <1>2, <1>3, Contents DEF Formatted, StoredNext

\* An info page tells only of its module.
LEMMA InfoPageWritten ==
    ASSUME TypeOK, NEW n \in Mods, NEW c, page' = [page EXCEPT ![n + 1] = c]
    PROVE  /\ page'[0] = page[0] /\ (Formatted' <=> Formatted) /\ StoredNext' = StoredNext
           /\ \A m \in Mods : InfoPage(m)' = IF m = n THEN c ELSE InfoPage(m)
<1> DEFINE p == n + 1
<1>0. p \in Pages /\ p # 0 /\ n \in Nat /\ \A m \in Mods : m \in Nat /\ (m + 1 = p <=> m = n)
  BY Modules
<1> HIDE DEF p
<1>1. page'[0] = page[0]
  BY <1>0, Modules, PageWritten DEF p
<1>2. \A m \in Mods : InfoPage(m)' = IF m = n THEN c ELSE InfoPage(m)
  <2>1. \A m \in Mods : InfoPage(m)' = IF m + 1 = p THEN c ELSE InfoPage(m)
    <3>1. page' = [page EXCEPT ![p] = c]
      BY DEF p
    <3> QED
      BY <1>0, <3>1, PageWritten
  <2> QED
    BY <1>0, <2>1
<1> QED
  BY <1>1, <1>2 DEF Formatted, StoredNext

\* The store as it is when no page is written.
LEMMA SameStore ==
    ASSUME UNCHANGED page
    PROVE  /\ Formatted' <=> Formatted
           /\ StoredNext' = StoredNext /\ StoredModules' = StoredModules
           /\ \A m \in Mods : InfoPage(m)' = InfoPage(m)
BY DEF Formatted, StoredNext, StoredModules, InfoPage, Allocated

LEMMA StoredTypes ==
    ASSUME TypeOK
    PROVE  /\ StoredNext \in 0 .. MAX_NUM_MODULES
           /\ Formatted => StoredNext = page[0].next /\ page[0] \in Metas
           /\ ~ Formatted => StoredNext = 0
           /\ \A m \in Mods : page[1 + m] \in {Data} \cup Infos
<1>1. page[0] \in Infos \cup Metas
  BY Modules DEF TypeOK
<1>2. Formatted <=> page[0] \in Metas
  BY <1>1, Contents DEF Formatted
<1>3. ASSUME NEW m \in Mods PROVE page[1 + m] \in {Data} \cup Infos
  <2>1. 1 + m \in Pages \ {0}
    BY Modules
  <2> QED
    BY <2>1 DEF TypeOK
<1> QED
  BY <1>2, <1>3, Contents, Modules DEF StoredNext

-----------------------------------------------------------------------------
\* Every step preserves the invariant.

LEMMA InitIInv == Init => IInv
<1> SUFFICES ASSUME Init PROVE IInv
  OBVIOUS
<1>1. \A p \in Pages : page[p] = Zero
  BY DEF Init
<1>2. \A m \in Mods : InfoPage(m) = Zero /\ info[m] = Zero
  <2>1. \A m \in Mods : 1 + m \in Pages
    BY Modules
  <2> QED
    BY <1>1, <2>1 DEF InfoPage, Init
<1>3. ~ Formatted /\ StoredNext = 0 /\ \A m \in ClearMods : ~ Allocated(InfoPage(m))
  BY <1>1, <1>2, Contents, Modules DEF Formatted, StoredNext
<1>4. TypeOK
  BY <1>1, Contents, Modules DEF Init, TypeOK
<1>5. OnlyInfos
  BY <1>2, Contents, Modules DEF OnlyInfos
<1> QED
  BY <1>3, <1>4, <1>5
  DEF Init, IInv, Unformatted, Burning, Empty, TableIsBelowNext, CreatedIsDurable,
      StoredModules, IdsAreBelowNext, Current, Creating, Opening, StepReset

LEMMA StutterIInv == IInv /\ UNCHANGED vars => IInv'
<1> SUFFICES ASSUME IInv, UNCHANGED vars PROVE IInv'
  OBVIOUS
<1>1. UNCHANGED <<page, next, info, pc, step, mod, blk, good, given, session>>
  BY DEF vars, storeVars, cacheVars, callVars, idVars
<1> QED
  BY <1>1
  DEF IInv, TypeOK, OnlyInfos, InfoPage, Unformatted, Formatted, Empty, Burning,
      StoredNext, TableIsBelowNext, StoredModules, CreatedIsDurable, IdsAreBelowNext,
      Current, SameModules, Creating, Opening, Usable, Allocated, StepReset

\* The copy as it is read from the EEPROM.
LEMMA Loaded ==
    ASSUME TypeOK, OnlyInfos, Formatted, CreatedIsDurable, session = {},
           CachePstorageInRam(page)
    PROVE  /\ next' = StoredNext /\ next' \in 0 .. MAX_NUM_MODULES
           /\ info' \in [Mods -> {Data} \cup Infos]
           /\ \A m \in Mods : info'[m] = InfoPage(m)
           /\ \A m \in Mods : Usable(m) => info'[m] \in ModInfos
<1>1. \A m \in Mods : info'[m] = InfoPage(m) /\ InfoPage(m) \in {Data} \cup Infos
  BY StoredTypes DEF CachePstorageInRam, InfoPage
<1>2. info' \in [Mods -> {Data} \cup Infos]
  BY <1>1 DEF CachePstorageInRam
<1>3. next' = StoredNext /\ next' \in 0 .. MAX_NUM_MODULES
  BY StoredTypes DEF CachePstorageInRam
<1>4. ASSUME NEW m \in Mods, Usable(m) PROVE info'[m] \in ModInfos
  <2>1. m \in given \cap ClearMods
    BY <1>4 DEF Usable
  <2>2. Allocated(InfoPage(m)) /\ InfoPage(m) \in Infos
    BY <2>1 DEF CreatedIsDurable, StoredModules, OnlyInfos
  <2> QED
    BY <1>1, <2>2, Contents
<1> QED
  BY <1>1, <1>2, <1>3, <1>4

LEMMA PstorageInitIInv == IInv /\ PstorageInit => IInv'
<1> SUFFICES ASSUME IInv, PstorageInit PROVE IInv'
  OBVIOUS
<1> USE DEF IInv
<1>1. /\ pc = "off" /\ good' = TRUE /\ session = {}
      /\ UNCHANGED <<page, step, mod, blk, given, session>>
  BY DEF PstorageInit, storeVars, idVars, Opening
<1>2. /\ Formatted' <=> Formatted
      /\ StoredNext' = StoredNext /\ StoredModules' = StoredModules
      /\ \A m \in Mods : InfoPage(m)' = InfoPage(m)
  BY <1>1, SameStore
<1>3. CASE Formatted
  <2>1. /\ pc' = "idle" /\ next' = StoredNext /\ next' \in 0 .. MAX_NUM_MODULES
        /\ info' \in [Mods -> {Data} \cup Infos]
        /\ \A m \in Mods : info'[m] = InfoPage(m)
        /\ \A m \in Mods : Usable(m) => info'[m] \in ModInfos
    BY <1>1, <1>3, Loaded DEF PstorageInit
  <2>2. TypeOK'
    BY <1>1, <2>1 DEF TypeOK
  <2>3. OnlyInfos'
    BY <1>2, <2>1, Modules DEF OnlyInfos
  <2>4. Current' /\ Opening'
    BY <1>1, <1>2, <2>1, Modules DEF Current, SameModules, Opening, Usable, Allocated
  <2>5. Unformatted' /\ Burning' /\ Creating'
    BY <1>2, <1>3, <2>1 DEF Unformatted, Burning, Creating
  <2> QED
    BY <1>1, <1>2, <2>2, <2>3, <2>4, <2>5
    DEF TableIsBelowNext, CreatedIsDurable, IdsAreBelowNext, StepReset
<1>4. CASE ~ Formatted
  <2>1. pc' = "burn" /\ UNCHANGED <<next, info>>
    BY <1>4 DEF PstorageInit, cacheVars
  <2> QED
    BY <1>1, <1>2, <1>4, <2>1, Modules, StoredTypes
    DEF TypeOK, OnlyInfos, Unformatted, Empty, Burning, Current, Creating, Opening,
        TableIsBelowNext, CreatedIsDurable, IdsAreBelowNext, Usable, Allocated, StepReset
<1> QED
  BY <1>3, <1>4

-----------------------------------------------------------------------------
\* Formatting.

LEMMA PageBurnt ==
    ASSUME IInv, pc = "burn", page' = [page EXCEPT ![step] = BurntPage]
    PROVE  /\ page' \in [Pages -> {Data} \cup Infos \cup Metas]
           /\ \A q \in Pages : page'[q] \in Metas => q = 0
           /\ page'[0] # Data
           /\ Formatted' /\ StoredNext' = 0 /\ StoredModules' = StoredModules
           /\ \A m \in ClearMods : InfoPage(m)' \in Infos /\ ~ Allocated(InfoPage(m)')
<1> USE DEF IInv
<1>1. /\ step \in Nat /\ step <= MAX_NUM_MODULES /\ StoredNext = 0
      /\ \A m \in ClearMods : InfoPage(m) \in Infos /\ ~ Allocated(InfoPage(m))
  BY DEF Burning, Empty, OnlyInfos, TypeOK
<1>2. 0 \in 0 .. MAX_NUM_MODULES
  BY Modules
<1>3. CASE step = 0
  <2>1. page' = [page EXCEPT ![0] = Meta(0)]
    BY <1>3 DEF BurntPage
  <2>2. Meta(0) \in Metas /\ Meta(0) # Data
    BY <1>2, Contents
  <2> QED
    BY <1>1, <1>2, <2>1, <2>2, MetaPage, PageTypes, Modules DEF Allocated
<1>4. CASE step # 0
  <2>1. /\ step - 1 \in Mods /\ step \in Pages /\ step = (step - 1) + 1
        /\ page' = [page EXCEPT ![(step - 1) + 1] = Zero]
    BY <1>1, <1>4, PStorageAssumption DEF BurntPage, Mods, Pages
  <2> DEFINE n == step - 1
  <2>2. /\ page' = [page EXCEPT ![n + 1] = Zero] /\ n \in Mods
        /\ n + 1 \in Pages /\ n + 1 # 0
    BY <1>1, <1>4, <2>1
  <2> HIDE DEF n
  <2>3. /\ (Formatted' <=> Formatted) /\ StoredNext' = StoredNext
        /\ \A m \in Mods : InfoPage(m)' = IF m = n THEN Zero ELSE InfoPage(m)
    BY <2>2, InfoPageWritten
  <2>4. Formatted
    BY <1>4 DEF Burning
  <2>5. \A m \in ClearMods : InfoPage(m)' \in Infos /\ ~ Allocated(InfoPage(m)')
    BY <1>1, <2>3, Contents, Modules
  <2>6. StoredModules' = StoredModules
    BY <1>1, <2>5 DEF StoredModules, Allocated
  <2>7. /\ page' \in [Pages -> {Data} \cup Infos \cup Metas]
        /\ \A q \in Pages : page'[q] \in Metas => q = 0
        /\ page'[0] # Data
    BY <2>2, PageTypes, Contents
  <2> QED
    BY <1>1, <2>3, <2>4, <2>5, <2>6, <2>7
<1> QED
  BY <1>3, <1>4

LEMMA PstorageBurnIInv == IInv /\ PstorageBurn => IInv'
<1> SUFFICES ASSUME IInv, PstorageBurn PROVE IInv'
  OBVIOUS
<1>0. TypeOK /\ OnlyInfos /\ Burning /\ Opening
  BY DEF IInv
<1>1. /\ pc = "burn" /\ good /\ page' = [page EXCEPT ![step] = BurntPage]
      /\ UNCHANGED <<good, given, session>>
      /\ given = {} /\ session = {} /\ step \in Nat /\ step <= MAX_NUM_MODULES
  BY <1>0 DEF PstorageBurn, EepromWrite, idVars, Burning, Empty, Opening, TypeOK
<1>2. /\ page' \in [Pages -> {Data} \cup Infos \cup Metas]
      /\ \A q \in Pages : page'[q] \in Metas => q = 0
      /\ page'[0] # Data
      /\ Formatted' /\ StoredNext' = 0 /\ StoredModules' = StoredModules
      /\ \A m \in ClearMods : InfoPage(m)' \in Infos /\ ~ Allocated(InfoPage(m)')
  BY <1>1, PageBurnt
<1>3. Empty' /\ StoredModules' = {}
  BY <1>1, <1>2 DEF Empty, StoredModules, Allocated
<1>4. Unformatted' /\ TableIsBelowNext' /\ CreatedIsDurable' /\ IdsAreBelowNext'
  BY <1>1, <1>2, <1>3
  DEF Unformatted, TableIsBelowNext, CreatedIsDurable, IdsAreBelowNext
<1>5. CASE step = MAX_NUM_MODULES
  <2>1. /\ pc' = "idle" /\ step' = 0 /\ mod' = 0 /\ blk' = 0
        /\ next' = page'[0].next
        /\ info' = [m \in Mods |-> page'[1 + m]]
    BY <1>5 DEF PstorageBurn, Return, CachePstorageInRam
  <2>2. page'[0].next = 0
    BY <1>2 DEF StoredNext, Formatted
  <2>3. \A m \in Mods : info'[m] = InfoPage(m)' /\ info'[m] \in {Data} \cup Infos
    <3>1. \A m \in Mods : 1 + m \in Pages \ {0}
      BY Modules
    <3> QED
      BY <1>2, <2>1, <3>1 DEF InfoPage
  <2>4. info' \in [Mods -> {Data} \cup Infos]
    BY <2>1, <2>3
  <2>5. TypeOK'
    BY <1>0, <1>1, <1>2, <2>1, <2>2, <2>4, Modules DEF TypeOK
  <2>6. OnlyInfos' /\ Current'
    BY <1>2, <2>1, <2>2, <2>3, Modules DEF OnlyInfos, Current, SameModules, Allocated
  <2>7. Burning' /\ Creating' /\ Opening'
    BY <1>1, <2>1 DEF Burning, Creating, Opening, Usable
  <2> QED
    BY <1>4, <2>5, <2>6, <2>7, <2>1 DEF IInv, StepReset
<1>6. CASE step # MAX_NUM_MODULES
  <2>1. /\ pc' = "burn" /\ step' = step + 1
        /\ UNCHANGED <<mod, blk, next, info>>
    BY <1>1, <1>6 DEF PstorageBurn, cacheVars
  <2>2. TypeOK'
    BY <1>0, <1>1, <1>2, <2>1 DEF TypeOK
  <2>3. OnlyInfos' /\ Current' /\ Creating' /\ Opening'
    BY <1>0, <1>1, <1>2, <2>1 DEF OnlyInfos, Current, Creating, Opening
  <2>4. Burning'
    BY <1>1, <1>2, <1>3, <1>6, <2>1, Modules DEF Burning
  <2> QED
    BY <1>4, <2>1, <2>2, <2>3, <2>4 DEF IInv, StepReset
<1> QED
  BY <1>5, <1>6

LEMMA PstorageBurnFailsIInv == IInv /\ PstorageBurnFails => IInv'
<1> SUFFICES ASSUME IInv, PstorageBurnFails PROVE IInv'
  OBVIOUS
<1>0. TypeOK /\ OnlyInfos /\ Burning /\ Opening /\ Unformatted
  BY DEF IInv
<1>1. /\ pc = "burn" /\ pc' = "off" /\ step' = 0 /\ mod' = 0 /\ blk' = 0
      /\ good' = FALSE /\ UNCHANGED <<next, info, given, session>>
      /\ given = {} /\ session = {}
  BY <1>0 DEF PstorageBurnFails, Return, EepromWriteFails, cacheVars, idVars,
              Burning, Empty, Opening
<1>2. /\ page' \in [Pages -> {Data} \cup Infos \cup Metas]
      /\ \A q \in Pages : page'[q] \in Metas => q = 0
      /\ page'[0] # Data
      /\ \A m \in ClearMods : InfoPage(m)' \in Infos /\ ~ Allocated(InfoPage(m)')
  <2>1. CASE page' = [page EXCEPT ![step] = BurntPage]
    BY <1>1, <2>1, PageBurnt
  <2>2. CASE UNCHANGED page
    BY <1>0, <1>1, <2>2, SameStore, Modules DEF TypeOK, OnlyInfos, Burning, Empty
  <2> QED
    BY <2>1, <2>2 DEF PstorageBurnFails, EepromWriteFails
<1>3. TypeOK'
  BY <1>0, <1>1, <1>2, Modules DEF TypeOK
<1>4. StoredModules' = {} /\ Empty'
  BY <1>1, <1>2 DEF StoredModules, Empty, Allocated
<1> QED
  BY <1>0, <1>1, <1>2, <1>3, <1>4
  DEF IInv, OnlyInfos, Unformatted, Burning, TableIsBelowNext, CreatedIsDurable,
      IdsAreBelowNext, Current, Creating, Opening, StepReset

-----------------------------------------------------------------------------
\* Creating a module.

LEMMA PstorageModuleCreateIInv ==
    ASSUME IInv, NEW blks \in NumBlks, NEW size \in BlkSizes,
           PstorageModuleCreate(blks, size)
    PROVE  IInv'
<1>0. TypeOK /\ OnlyInfos /\ Current /\ Opening /\ Unformatted
  BY DEF IInv
<1> DEFINE new == Info(TRUE, FALSE, next, blks % 256, Aligned(size))
<1>1. /\ pc = "idle" /\ pc' = "create" /\ next \in Mods /\ next \in Nat
      /\ Aligned(size) <= MAX_BLK_SIZE_IN_BYTES
      /\ next' = next + 1 /\ next' \in 0 .. MAX_NUM_MODULES
      /\ info' = [info EXCEPT ![next] = new] /\ mod' = next
      /\ UNCHANGED <<page, step, blk, good, given, session>>
  BY <1>0, Modules DEF PstorageModuleCreate, TypeOK, Mods, storeVars, idVars
<1>2. new \in ModInfos
  BY <1>1, Created
<1> HIDE DEF new
<1>3. /\ \A m \in Mods : info'[m] = IF m = next THEN new ELSE info[m]
      /\ info' \in [Mods -> {Data} \cup Infos]
  BY <1>0, <1>1, <1>2, Contents DEF TypeOK
<1>4. /\ Formatted' <=> Formatted
      /\ StoredNext' = StoredNext /\ StoredModules' = StoredModules
      /\ \A m \in Mods : InfoPage(m)' = InfoPage(m)
  BY <1>1, SameStore
<1>5. TypeOK'
  BY <1>0, <1>1, <1>3 DEF TypeOK
<1>6. OnlyInfos'
  BY <1>0, <1>2, <1>3, <1>4, Contents, Modules DEF OnlyInfos
<1>7. Opening'
  <2>1. ASSUME NEW m \in Mods, Usable(m) PROVE info'[m] \in ModInfos
    BY <1>0, <1>1, <1>2, <1>3, <2>1 DEF Opening
  <2>2. \A m \in Mods : Usable(m)' <=> Usable(m)
    BY <1>1 DEF Usable
  <2> QED
    BY <1>1, <1>2, <1>3, <2>1, <2>2 DEF Opening
<1>8. Creating'
  <2> SUFFICES ASSUME good PROVE Creating'
    BY <1>1 DEF Creating
  <2>0. step = 0
    BY <1>1 DEF IInv, StepReset
  <2>1. next = StoredNext /\ SameModules
    BY <1>0, <1>1 DEF Current
  <2>2. next \notin given
    BY <2>1, <1>1 DEF IInv, IdsAreBelowNext
  <2>3. ASSUME NEW m \in ClearMods
        PROVE  Allocated(InfoPage(m)) <=>
                 Allocated(info'[m]) /\ (m = next => step > m + 1)
    <3>1. CASE m = next
      <4>1. ~ Allocated(InfoPage(m))
        BY <2>1, <3>1, <1>1 DEF IInv, TableIsBelowNext, StoredModules
      <4> QED
        BY <2>0, <3>1, <4>1, <1>1
    <3>2. CASE m # next
      BY <1>3, <2>1, <3>2, Modules DEF SameModules
    <3> QED
      BY <3>1, <3>2
  <2> QED
    BY <1>1, <1>4, <2>0, <2>1, <2>2, <2>3, Modules DEF Creating, Allocated
<1> QED
  BY <1>1, <1>4, <1>5, <1>6, <1>7, <1>8
  DEF IInv, Unformatted, Burning, TableIsBelowNext, CreatedIsDurable,
      IdsAreBelowNext, Current, StepReset

LEMMA PageSynced ==
    ASSUME IInv, pc = "create", good, page' = [page EXCEPT ![step] = SyncedPage]
    PROVE  /\ page' \in [Pages -> {Data} \cup Infos \cup Metas]
           /\ \A q \in Pages : page'[q] \in Metas => q = 0
           /\ page'[0] # Data
           /\ Formatted' /\ StoredNext' = mod + 1
           /\ \A m \in ClearMods :
                /\ InfoPage(m)' \in Infos
                /\ Allocated(InfoPage(m)') <=>
                     Allocated(info[m]) /\ (m = mod => step + 1 > m + 1)
           /\ \A m \in StoredModules' : m < StoredNext'
           /\ StoredModules \subseteq StoredModules' /\ StoredNext <= StoredNext'
<1>0. TypeOK /\ OnlyInfos /\ Creating /\ Unformatted /\ TableIsBelowNext
  BY DEF IInv
<1>1. /\ step \in Nat /\ step <= MAX_NUM_MODULES /\ mod \in Nat /\ next = mod + 1
      /\ next \in 0 .. MAX_NUM_MODULES /\ Formatted
      /\ StoredNext = IF step = 0 THEN mod ELSE mod + 1
      /\ \A m \in ClearMods :
           Allocated(InfoPage(m)) <=> Allocated(info[m]) /\ (m = mod => step > m + 1)
  BY <1>0, Modules DEF TypeOK, Creating, Unformatted
<1>2. ASSUME /\ Formatted' /\ StoredNext' = mod + 1
             /\ \A m \in ClearMods :
                  Allocated(InfoPage(m)') <=>
                    Allocated(info[m]) /\ (m = mod => step + 1 > m + 1)
      PROVE  /\ \A m \in StoredModules' : m < StoredNext'
             /\ StoredModules \subseteq StoredModules' /\ StoredNext <= StoredNext'
  <2>1. StoredModules' = {m \in ClearMods : Allocated(InfoPage(m)')}
    BY DEF StoredModules, Allocated
  <2>2. \A m \in StoredModules : m \in StoredModules'
    BY <1>1, <1>2, <2>1, Modules DEF StoredModules
  <2>3. ASSUME NEW m \in StoredModules' PROVE m < StoredNext'
    <3>1. m \in ClearMods /\ m \in Nat /\ Allocated(InfoPage(m)')
      BY <2>1, Modules
    <3>2. CASE m = mod
      BY <1>1, <1>2, <3>2
    <3>3. CASE m # mod
      <4>1. m \in StoredModules
        BY <1>1, <1>2, <3>1, <3>3 DEF StoredModules
      <4> QED
        BY <1>0, <1>1, <1>2, <3>1, <4>1 DEF TableIsBelowNext
    <3> QED
      BY <3>2, <3>3
  <2> QED
    BY <1>1, <1>2, <2>2, <2>3
<1>3. CASE step = 0
  <2>1. page' = [page EXCEPT ![0] = Meta(next)]
    BY <1>3 DEF SyncedPage
  <2>2. Meta(next) \in Metas /\ Meta(next) # Data
    BY <1>1, Contents
  <2>3. /\ Formatted' /\ StoredNext' = next
        /\ \A m \in Mods : InfoPage(m)' = InfoPage(m)
    BY <1>0, <1>1, <2>1, MetaPage
  <2>4. \A m \in ClearMods :
          /\ InfoPage(m)' \in Infos
          /\ Allocated(InfoPage(m)') <=>
               Allocated(info[m]) /\ (m = mod => step + 1 > m + 1)
    BY <1>0, <1>1, <1>3, <2>3, Modules DEF OnlyInfos
  <2>5. /\ page' \in [Pages -> {Data} \cup Infos \cup Metas]
        /\ \A q \in Pages : page'[q] \in Metas => q = 0
        /\ page'[0] # Data
    BY <1>0, <2>1, <2>2, PageTypes, Modules
  <2> QED
    BY <1>1, <1>2, <2>3, <2>4, <2>5
<1>4. CASE step # 0
  <2> DEFINE n == step - 1
  <2>1. /\ page' = [page EXCEPT ![n + 1] = info[n]] /\ n \in Mods /\ step = n + 1
        /\ n + 1 \in Pages /\ n + 1 # 0
    BY <1>1, <1>4, PStorageAssumption DEF SyncedPage, Mods, Pages
  <2> HIDE DEF n
  <2>2. info[n] \in {Data} \cup Infos
    BY <1>0, <2>1 DEF TypeOK
  <2>3. /\ Formatted' /\ StoredNext' = StoredNext
        /\ \A m \in Mods : InfoPage(m)' = IF m = n THEN info[n] ELSE InfoPage(m)
    BY <1>0, <1>1, <2>1, InfoPageWritten
  <2>4. ASSUME NEW m \in ClearMods
        PROVE  /\ InfoPage(m)' \in Infos
               /\ Allocated(InfoPage(m)') <=>
                    Allocated(info[m]) /\ (m = mod => step + 1 > m + 1)
    <3>1. m \in Mods /\ m \in Nat /\ n \in Nat
      BY <2>1, Modules
    <3>2. CASE m = n
      BY <1>0, <2>1, <2>3, <3>1, <3>2 DEF OnlyInfos
    <3>3. CASE m # n
      BY <1>0, <1>1, <2>1, <2>3, <3>1, <3>3 DEF OnlyInfos
    <3> QED
      BY <3>2, <3>3
  <2>5. /\ page' \in [Pages -> {Data} \cup Infos \cup Metas]
        /\ \A q \in Pages : page'[q] \in Metas => q = 0
        /\ page'[0] # Data
    BY <1>0, <2>1, <2>2, PageTypes, Contents
  <2> QED
    BY <1>1, <1>2, <1>4, <2>3, <2>4, <2>5
<1> QED
  BY <1>3, <1>4

LEMMA SyncCacheToStorageIInv == IInv /\ SyncCacheToStorage => IInv'
<1> SUFFICES ASSUME IInv, SyncCacheToStorage PROVE IInv'
  OBVIOUS
<1>0. /\ TypeOK /\ OnlyInfos /\ Creating /\ Opening
      /\ CreatedIsDurable /\ IdsAreBelowNext
  BY DEF IInv
<1>1. /\ pc = "create" /\ good /\ page' = [page EXCEPT ![step] = SyncedPage]
      /\ UNCHANGED <<good, next, info>>
      /\ step \in Nat /\ step <= MAX_NUM_MODULES /\ next = mod + 1 /\ mod \in Mods
      /\ info[mod] \in ModInfos
  BY <1>0 DEF SyncCacheToStorage, EepromWrite, cacheVars, Creating, Opening, TypeOK
<1>2. /\ page' \in [Pages -> {Data} \cup Infos \cup Metas]
      /\ \A q \in Pages : page'[q] \in Metas => q = 0
      /\ page'[0] # Data
      /\ Formatted' /\ StoredNext' = mod + 1
      /\ \A m \in ClearMods :
           /\ InfoPage(m)' \in Infos
           /\ Allocated(InfoPage(m)') <=>
                Allocated(info[m]) /\ (m = mod => step + 1 > m + 1)
      /\ \A m \in StoredModules' : m < StoredNext'
      /\ StoredModules \subseteq StoredModules' /\ StoredNext <= StoredNext'
  BY <1>1, PageSynced
<1>3. OnlyInfos' /\ Unformatted' /\ TableIsBelowNext'
  BY <1>0, <1>1, <1>2 DEF OnlyInfos, Unformatted, TableIsBelowNext
<1>4. CASE step = MAX_NUM_MODULES
  <2>1. /\ pc' = "idle" /\ step' = 0 /\ mod' = 0 /\ blk' = 0
        /\ given' = given \cup {mod} /\ session' = session \cup {mod}
    BY <1>4 DEF SyncCacheToStorage, Return
  <2>2. TypeOK'
    BY <1>0, <1>1, <1>2, <2>1, Modules DEF TypeOK
  <2>3. mod \in ClearMods => mod \in StoredModules'
    BY <1>1, <1>2, <1>4, Contents, Modules DEF StoredModules, Allocated
  <2>4. CreatedIsDurable' /\ IdsAreBelowNext'
    BY <1>0, <1>1, <1>2, <2>1, <2>3, StoredTypes, Modules
    DEF CreatedIsDurable, IdsAreBelowNext, TypeOK
  <2>5. \A m \in ClearMods : Allocated(InfoPage(m)') <=> Allocated(info[m])
    BY <1>2, <1>4, Modules
  <2>6. Current'
    BY <1>1, <1>2, <2>5 DEF Current, SameModules, Allocated
  <2>7. Opening'
    BY <1>0, <1>1, <2>1 DEF Opening, Usable
  <2> QED
    BY <1>3, <2>1, <2>2, <2>4, <2>6, <2>7 DEF IInv, Burning, Creating, StepReset
<1>5. CASE step # MAX_NUM_MODULES
  <2>1. /\ pc' = pc /\ step' = step + 1 /\ step' <= MAX_NUM_MODULES
        /\ UNCHANGED <<mod, blk, given, session>>
    BY <1>1, <1>5, Modules DEF SyncCacheToStorage, idVars
  <2>2. TypeOK'
    BY <1>0, <1>1, <1>2, <2>1 DEF TypeOK
  <2>3. CreatedIsDurable' /\ IdsAreBelowNext'
    BY <1>0, <1>2, <2>1, <2>2, StoredTypes, Modules
    DEF CreatedIsDurable, IdsAreBelowNext, TypeOK
  <2>4. Creating'
    BY <1>0, <1>1, <1>2, <2>1 DEF Creating, Allocated
  <2>5. Opening'
    BY <1>0, <1>1, <2>1 DEF Opening, Usable
  <2> QED
    BY <1>1, <1>3, <2>1, <2>2, <2>3, <2>4, <2>5 DEF IInv, Burning, Current, StepReset
<1> QED
  BY <1>4, <1>5

LEMMA SyncFailsIInv == IInv /\ SyncFails => IInv'
<1> SUFFICES ASSUME IInv, SyncFails PROVE IInv'
  OBVIOUS
<1>0. /\ TypeOK /\ OnlyInfos /\ Opening /\ Unformatted
      /\ CreatedIsDurable /\ IdsAreBelowNext /\ TableIsBelowNext
  BY DEF IInv
<1>1. /\ pc = "create" /\ pc' = "idle" /\ step' = 0 /\ mod' = 0 /\ blk' = 0
      /\ good' = FALSE /\ UNCHANGED <<next, info, given, session>>
  BY DEF SyncFails, Return, EepromWriteFails, cacheVars, idVars
<1>2. /\ page' \in [Pages -> {Data} \cup Infos \cup Metas]
      /\ \A q \in Pages : page'[q] \in Metas => q = 0
      /\ page'[0] # Data
      /\ Formatted'
      /\ \A m \in ClearMods : InfoPage(m)' \in Infos
      /\ \A m \in StoredModules' : m < StoredNext'
      /\ StoredModules \subseteq StoredModules'
      /\ StoredNext' \in Nat /\ StoredNext <= StoredNext'
  <2>1. CASE good /\ page' = [page EXCEPT ![step] = SyncedPage]
    <3>1. mod + 1 \in Nat
      BY <1>0, Modules DEF TypeOK
    <3> QED
      BY <1>1, <2>1, <3>1, PageSynced
  <2>2. CASE UNCHANGED page
    BY <1>0, <1>1, <2>2, SameStore, StoredTypes, Modules
    DEF TypeOK, OnlyInfos, Unformatted, TableIsBelowNext
  <2> QED
    BY <2>1, <2>2 DEF SyncFails, EepromWriteFails
<1>3. TypeOK'
  BY <1>0, <1>1, <1>2, Modules DEF TypeOK
<1>4. CreatedIsDurable' /\ IdsAreBelowNext'
  BY <1>0, <1>1, <1>2, <1>3, StoredTypes, Modules
  DEF CreatedIsDurable, IdsAreBelowNext, TypeOK
<1>5. Opening'
  BY <1>0, <1>1 DEF Opening, Usable
<1> QED
  BY <1>0, <1>1, <1>2, <1>3, <1>4, <1>5
  DEF IInv, OnlyInfos, Unformatted, Burning, TableIsBelowNext, Current, Creating, StepReset

-----------------------------------------------------------------------------
\* Opening, closing and writing.

\* Only whether a module is open changes.
LEMMA FlagIInv ==
    ASSUME IInv, NEW m \in Mods, NEW o \in BOOLEAN, pc = "idle", Usable(m),
           info' = [info EXCEPT ![m].open = o],
           UNCHANGED <<page, next, pc, step, mod, blk, good, given, session>>
    PROVE  IInv'
<1>0. TypeOK /\ OnlyInfos /\ Current /\ Opening
  BY DEF IInv
<1>1. info[m] \in ModInfos
  BY <1>0 DEF Opening
<1> DEFINE new == [info[m] EXCEPT !.open = o]
<1>2. new \in ModInfos
  BY <1>1, Opened
<1>3. \A n \in Mods : info'[n] = IF n = m THEN new ELSE info[n]
  BY <1>0 DEF TypeOK
<1> HIDE DEF new
<1>4. info' \in [Mods -> {Data} \cup Infos]
  BY <1>0, <1>2, <1>3, Contents DEF TypeOK
<1>5. \A n \in ClearMods : info'[n] \in Infos /\ (Allocated(info'[n]) <=> Allocated(info[n]))
  BY <1>0, <1>1, <1>2, <1>3, Contents, Modules DEF OnlyInfos
<1>6. /\ Formatted' <=> Formatted
      /\ StoredNext' = StoredNext /\ StoredModules' = StoredModules
      /\ \A n \in Mods : InfoPage(n)' = InfoPage(n)
  BY SameStore
<1>7. TypeOK' /\ OnlyInfos'
  BY <1>0, <1>4, <1>5, <1>6, Modules DEF TypeOK, OnlyInfos
<1>8. Current'
  BY <1>0, <1>5, <1>6, Modules DEF Current, SameModules, Allocated
<1>9. Opening'
  BY <1>0, <1>2, <1>3 DEF Opening, Usable
<1> QED
  BY <1>6, <1>7, <1>8, <1>9
  DEF IInv, Unformatted, Burning, TableIsBelowNext, CreatedIsDurable, IdsAreBelowNext,
      Creating, StepReset

LEMMA PstorageModuleOpenIInv ==
    ASSUME IInv, NEW m \in Mods, PstorageModuleOpen(m)
    PROVE  IInv'
BY FlagIInv DEF PstorageModuleOpen, storeVars, callVars, idVars

LEMMA PstorageModuleCloseIInv ==
    ASSUME IInv, NEW m \in Mods, PstorageModuleClose(m)
    PROVE  IInv'
BY FlagIInv DEF PstorageModuleClose, storeVars, callVars, idVars

LEMMA PstorageWriteBlkIInv ==
    ASSUME IInv, NEW m \in Mods, NEW b \in Blks, PstorageWriteBlk(m, b)
    PROVE  IInv'
<1>0. TypeOK /\ OnlyInfos /\ Current /\ Opening /\ Unformatted
  BY DEF IInv
<1>1. /\ pc = "idle" /\ Usable(m) /\ pc' = "write" /\ mod' = m /\ blk' = b
      /\ UNCHANGED <<page, next, info, step, good, given, session>>
      /\ step = 0
  BY DEF PstorageWriteBlk, storeVars, cacheVars, idVars, IInv, StepReset
<1>2. info[m] \in ModInfos
  BY <1>0, <1>1 DEF Opening
<1>3. 0 <= info[m].blk_size \div PAGE_SIZE_IN_BYTES
  <2>1. info[m].blk_size \in 0 .. MAX_BLK_SIZE_IN_BYTES
    BY <1>2 DEF ModInfos, AlignedSizes
  <2> QED
    BY <2>1 DEF MAX_BLK_SIZE_IN_BYTES
<1>4. /\ Formatted' <=> Formatted
      /\ StoredNext' = StoredNext /\ StoredModules' = StoredModules
      /\ \A n \in Mods : InfoPage(n)' = InfoPage(n)
  BY <1>1, SameStore
<1>5. TypeOK' /\ OnlyInfos'
  BY <1>0, <1>1, <1>4, PStorageAssumption, Modules DEF TypeOK, OnlyInfos
<1>6. Opening'
  BY <1>0, <1>1, <1>2, <1>3 DEF Opening, Usable
<1>7. Current'
  BY <1>0, <1>1, <1>4, Modules DEF Current, SameModules, Allocated
<1> QED
  BY <1>1, <1>4, <1>5, <1>6, <1>7
  DEF IInv, Unformatted, Burning, TableIsBelowNext, CreatedIsDurable, IdsAreBelowNext,
      Creating, StepReset

\* What a page of a block, or nothing, does to the tables.
LEMMA BlockWritten ==
    ASSUME IInv, pc = "write", ~ BlkDone,
           page' = [page EXCEPT ![BlkPage] = Data] \/ UNCHANGED page
    PROVE  /\ page' \in [Pages -> {Data} \cup Infos \cup Metas]
           /\ \A q \in Pages : page'[q] \in Metas => q = 0
           /\ page'[0] # Data
           /\ (Formatted' <=> Formatted) /\ StoredNext' = StoredNext
           /\ StoredModules' = StoredModules
           /\ \A m \in ClearMods : InfoPage(m)' = InfoPage(m)
<1>1. TypeOK /\ Opening /\ step \in Nat
  BY DEF IInv, TypeOK
<1>2. BlkPage \in Pages \ {0} /\ \A m \in ClearMods : BlkPage # m + 1
  BY <1>1, BlockMissesTables
<1>3. CASE UNCHANGED page
  BY <1>1, <1>3, SameStore, Modules DEF TypeOK
<1>4. CASE page' = [page EXCEPT ![BlkPage] = Data]
  <2> DEFINE p == BlkPage
  <2>1. /\ p \in Pages \ {0} /\ \A m \in ClearMods : p # m + 1
        /\ page' = [page EXCEPT ![p] = Data]
    BY <1>2, <1>4
  <2> HIDE DEF p
  <2> QED
    BY <1>1, <2>1, OtherPage, PageTypes, Contents
<1> QED
  BY <1>3, <1>4

LEMMA WriteBlkPageIInv == IInv /\ WriteBlkPage => IInv'
<1> SUFFICES ASSUME IInv, WriteBlkPage PROVE IInv'
  OBVIOUS
<1>0. TypeOK /\ OnlyInfos /\ Current /\ Opening /\ Unformatted
  BY DEF IInv
<1>1. /\ pc = "write" /\ ~ BlkDone /\ page' = [page EXCEPT ![BlkPage] = Data]
      /\ step' = step + 1 /\ step \in Nat
      /\ UNCHANGED <<next, info, pc, mod, blk, good, given, session>>
  BY <1>0 DEF WriteBlkPage, EepromWrite, cacheVars, idVars, TypeOK
<1>2. /\ page' \in [Pages -> {Data} \cup Infos \cup Metas]
      /\ \A q \in Pages : page'[q] \in Metas => q = 0
      /\ page'[0] # Data
      /\ (Formatted' <=> Formatted) /\ StoredNext' = StoredNext
      /\ StoredModules' = StoredModules
      /\ \A m \in ClearMods : InfoPage(m)' = InfoPage(m)
  BY <1>1, BlockWritten
<1>3. TypeOK' /\ OnlyInfos'
  BY <1>0, <1>1, <1>2 DEF TypeOK, OnlyInfos
<1>4. Current'
  BY <1>0, <1>1, <1>2 DEF Current, SameModules, Allocated
<1>5. Opening'
  <2>1. step + 1 <= info[mod].blk_size \div 8
    BY <1>0, <1>1, BlockMissesTables
  <2> QED
    BY <1>0, <1>1, <2>1 DEF Opening, Usable
<1> QED
  BY <1>1, <1>2, <1>3, <1>4, <1>5
  DEF IInv, Unformatted, Burning, TableIsBelowNext, CreatedIsDurable, IdsAreBelowNext,
      Creating, StepReset

LEMMA WriteBlkEndsIInv == IInv /\ (WriteBlkFails \/ WriteBlkReturns) => IInv'
<1> SUFFICES ASSUME IInv, WriteBlkFails \/ WriteBlkReturns PROVE IInv'
  OBVIOUS
<1>0. TypeOK /\ OnlyInfos /\ Current /\ Opening /\ Unformatted
  BY DEF IInv
<1>1. /\ pc = "write" /\ pc' = "idle" /\ step' = 0 /\ mod' = 0 /\ blk' = 0
      /\ good' \in BOOLEAN /\ (good' => good)
      /\ UNCHANGED <<next, info, given, session>>
  <2>1. CASE WriteBlkFails
    BY <2>1 DEF WriteBlkFails, Return, EepromWriteFails, cacheVars, idVars
  <2>2. CASE WriteBlkReturns
    BY <1>0, <2>2 DEF WriteBlkReturns, Return, cacheVars, idVars, TypeOK
  <2> QED
    BY <2>1, <2>2
<1>2. /\ page' \in [Pages -> {Data} \cup Infos \cup Metas]
      /\ \A q \in Pages : page'[q] \in Metas => q = 0
      /\ page'[0] # Data
      /\ (Formatted' <=> Formatted) /\ StoredNext' = StoredNext
      /\ StoredModules' = StoredModules
      /\ \A m \in ClearMods : InfoPage(m)' = InfoPage(m)
  <2>1. CASE WriteBlkFails
    BY <1>1, <2>1, BlockWritten DEF WriteBlkFails, EepromWriteFails
  <2>2. CASE WriteBlkReturns
    BY <1>0, <2>2, SameStore, Modules DEF WriteBlkReturns, storeVars, TypeOK
  <2> QED
    BY <2>1, <2>2
<1>3. TypeOK' /\ OnlyInfos'
  BY <1>0, <1>1, <1>2, Modules DEF TypeOK, OnlyInfos
<1>4. Current'
  BY <1>0, <1>1, <1>2 DEF Current, SameModules, Allocated
<1>5. Opening'
  BY <1>0, <1>1 DEF Opening, Usable
<1> QED
  BY <1>1, <1>2, <1>3, <1>4, <1>5
  DEF IInv, Unformatted, Burning, TableIsBelowNext, CreatedIsDurable, IdsAreBelowNext,
      Creating, StepReset

LEMMA CrashIInv == IInv /\ Crash => IInv'
<1> SUFFICES ASSUME IInv, Crash PROVE IInv'
  OBVIOUS
<1>0. TypeOK /\ OnlyInfos /\ Unformatted /\ Burning
  BY DEF IInv
<1>1. /\ pc' = "off" /\ step' = 0 /\ mod' = 0 /\ blk' = 0 /\ next' = 0
      /\ info' = [m \in Mods |-> Zero] /\ good' = TRUE /\ session' = {}
      /\ UNCHANGED <<page, given>> /\ pc # "off"
  BY DEF Crash, Return, storeVars
<1>2. /\ Formatted' <=> Formatted
      /\ StoredNext' = StoredNext /\ StoredModules' = StoredModules
      /\ \A n \in Mods : InfoPage(n)' = InfoPage(n)
  BY <1>1, SameStore
<1>3. TypeOK' /\ OnlyInfos'
  BY <1>0, <1>1, <1>2, Contents, Modules DEF TypeOK, OnlyInfos
<1>4. Unformatted'
  BY <1>0, <1>1, <1>2, Modules DEF Unformatted, Empty, Allocated
<1> QED
  BY <1>1, <1>2, <1>3, <1>4
  DEF IInv, Burning, TableIsBelowNext, CreatedIsDurable, IdsAreBelowNext,
      Current, Creating, Opening, StepReset

LEMMA NextIInv == IInv /\ [Next]_vars => IInv'
<1> SUFFICES ASSUME IInv, [Next]_vars PROVE IInv'
  OBVIOUS
<1>1. CASE PstorageInit
  BY <1>1, PstorageInitIInv
<1>2. CASE PstorageBurn
  BY <1>2, PstorageBurnIInv
<1>3. CASE PstorageBurnFails
  BY <1>3, PstorageBurnFailsIInv
<1>4. CASE \E blks \in NumBlks, size \in BlkSizes : PstorageModuleCreate(blks, size)
  BY <1>4, PstorageModuleCreateIInv
<1>5. CASE SyncCacheToStorage
  BY <1>5, SyncCacheToStorageIInv
<1>6. CASE SyncFails
  BY <1>6, SyncFailsIInv
<1>7. ASSUME NEW m \in Mods,
             \/ PstorageModuleOpen(m) \/ PstorageModuleClose(m)
             \/ \E b \in Blks : PstorageWriteBlk(m, b)
      PROVE  IInv'
  BY <1>7, PstorageModuleOpenIInv, PstorageModuleCloseIInv, PstorageWriteBlkIInv
<1>8. CASE WriteBlkPage
  BY <1>8, WriteBlkPageIInv
<1>9. CASE WriteBlkFails \/ WriteBlkReturns
  BY <1>9, WriteBlkEndsIInv
<1>10. CASE Crash
  BY <1>10, CrashIInv
<1>11. CASE UNCHANGED vars
  BY <1>11, StutterIInv
<1> QED
  BY <1>1, <1>2, <1>3, <1>4, <1>5, <1>6, <1>7, <1>8, <1>9, <1>10, <1>11 DEF Next

\* The inductive invariant: how far the pages written so far have come, and what
\* a program that died at one of them left behind.
THEOREM PStorageInvariant == Spec => []IInv
BY InitIInv, NextIInv, PTL DEF Spec

-----------------------------------------------------------------------------
\* What the store promises.

\* TypeOK holds in every reachable state.
THEOREM TypeCorrect == Spec => []TypeOK
BY PStorageInvariant, PTL DEF IInv

\* A module whose id pstorage_module_create has returned is in the table of
\* the EEPROM from then on, whatever fails and wherever the program is killed.
THEOREM Durability == Spec => []CreatedIsDurable
BY PStorageInvariant, PTL DEF IInv

\* An info page that is in use lies below the next free id, so that
\* pstorage_module_create never takes it: sync_cache_to_storage writes the
\* meta page before the table.
THEOREM TableOrder == Spec => []TableIsBelowNext
BY PStorageInvariant, PTL DEF IInv

\* Between calls a restart of the program would find the modules it has now.
THEOREM CacheCurrency == Spec => []CacheIsCurrent
<1>1. IInv => CacheIsCurrent
  <2> SUFFICES ASSUME IInv, pc = "idle", good
               PROVE  /\ next = StoredNext
                      /\ {m \in ClearMods : Allocated(info[m])} = StoredModules
    BY DEF CacheIsCurrent
  <2>1. next = StoredNext /\ SameModules
    BY DEF IInv, Current
  <2> QED
    BY <2>1 DEF SameModules, StoredModules
<1> QED
  BY <1>1, PStorageInvariant, PTL

\* No id is returned twice.
THEOREM UniqueIds == Spec => IdsAreUnique
<1>1. IInv /\ [Next]_vars => [pc = "create" /\ pc' = "idle" /\ good' => mod \notin given]_vars
  <2> SUFFICES ASSUME IInv, Next, pc = "create", pc' = "idle", good' PROVE mod \notin given
    BY DEF vars, callVars
  <2>1. SyncCacheToStorage \/ SyncFails
    BY DEF Next, PstorageInit, PstorageBurn, PstorageBurnFails, PstorageModuleCreate,
           PstorageModuleOpen, PstorageModuleClose, PstorageWriteBlk,
           WriteBlkPage, WriteBlkFails, WriteBlkReturns, Crash, Return
  <2>2. SyncCacheToStorage
    BY <2>1 DEF SyncFails, EepromWriteFails
  <2> QED
    BY <2>2 DEF IInv, Creating, SyncCacheToStorage, EepromWrite
<1> QED
  BY <1>1, PStorageInvariant, PTL DEF Spec, IdsAreUnique

-----------------------------------------------------------------------------
\* The store implements ModuleTable.

\* The meta page reserves the id, the page of the module commits it.
LEMMA SyncRefines ==
    ASSUME IInv, pc = "create", good, page' = [page EXCEPT ![step] = SyncedPage]
    PROVE  Table!Reserve \/ Table!Commit \/ UNCHANGED <<StoredNext, StoredModules>>
<1>1. /\ StoredNext' = mod + 1
      /\ \A m \in ClearMods :
           Allocated(InfoPage(m)') <=> Allocated(info[m]) /\ (m = mod => step + 1 > m + 1)
  BY PageSynced
<1>2. /\ TypeOK /\ step \in Nat /\ mod \in Mods /\ mod \in Nat /\ mod < MAX_NUM_MODULES
      /\ StoredNext = IF step = 0 THEN mod ELSE mod + 1
      /\ \A m \in ClearMods :
           Allocated(InfoPage(m)) <=> Allocated(info[m]) /\ (m = mod => step > m + 1)
  BY Modules DEF IInv, TypeOK, Creating
<1>3. StoredModules' = {m \in ClearMods : Allocated(InfoPage(m)')}
  BY DEF StoredModules, Allocated
<1>4. CASE step = 0
  <2>1. \A m \in ClearMods : Allocated(InfoPage(m)') <=> Allocated(InfoPage(m))
    BY <1>1, <1>2, <1>4, Modules
  <2>2. StoredModules' = StoredModules
    BY <1>3, <2>1 DEF StoredModules
  <2> QED
    BY <1>1, <1>2, <1>4, <2>2 DEF Table!Reserve
<1>5. CASE step # 0
  <2>1. StoredNext' = StoredNext /\ StoredNext = mod + 1
    BY <1>1, <1>2, <1>5
  <2>2. \A m \in ClearMods : m # mod =>
          (Allocated(InfoPage(m)') <=> Allocated(InfoPage(m)))
    BY <1>1, <1>2
  <2>3. CASE mod \in StoredModules' /\ mod \notin StoredModules
    <3>1. mod \in ClearMods
      BY <1>3, <2>3
    <3>2. \A m \in ClearMods : m \in StoredModules' <=> m \in StoredModules \/ m = mod
      BY <1>3, <2>2, <2>3 DEF StoredModules
    <3>3. StoredModules' \subseteq ClearMods /\ StoredModules \subseteq ClearMods
      BY <1>3 DEF StoredModules
    <3>4. StoredModules' = StoredModules \cup {mod}
      BY <3>1, <3>2, <3>3
    <3>5. StoredNext > 0 /\ StoredNext - 1 = mod
      BY <1>2, <2>1
    <3> QED
      BY <2>1, <2>3, <3>1, <3>4, <3>5 DEF Table!Commit
  <2>4. CASE ~ (mod \in StoredModules' /\ mod \notin StoredModules)
    <3>1. \A m \in ClearMods : Allocated(InfoPage(m)) => Allocated(InfoPage(m)')
      BY <1>1, <1>2, Modules
    <3>2. \A m \in ClearMods : m \in StoredModules' <=> m \in StoredModules
      BY <1>3, <2>2, <2>4, <3>1 DEF StoredModules
    <3>3. StoredModules' \subseteq ClearMods /\ StoredModules \subseteq ClearMods
      BY <1>3 DEF StoredModules
    <3>4. StoredModules' = StoredModules
      BY <3>2, <3>3
    <3> QED
      BY <2>1, <3>4
  <2> QED
    BY <2>3, <2>4
<1> QED
  BY <1>4, <1>5

LEMMA StepRefines ==
    IInv /\ [Next]_vars => [Table!Next]_<<StoredNext, StoredModules>>
<1> SUFFICES ASSUME IInv, [Next]_vars
             PROVE  Table!Next \/ UNCHANGED <<StoredNext, StoredModules>>
  OBVIOUS
<1>1. CASE UNCHANGED page
  BY <1>1, SameStore
<1>2. ASSUME pc = "burn", page' = [page EXCEPT ![step] = BurntPage]
      PROVE  UNCHANGED <<StoredNext, StoredModules>>
  BY <1>2, PageBurnt DEF IInv, Burning
<1>3. ASSUME pc = "create", good, page' = [page EXCEPT ![step] = SyncedPage]
      PROVE  Table!Next \/ UNCHANGED <<StoredNext, StoredModules>>
  BY <1>3, SyncRefines DEF Table!Next
<1>4. ASSUME pc = "write", ~ BlkDone, page' = [page EXCEPT ![BlkPage] = Data]
      PROVE  UNCHANGED <<StoredNext, StoredModules>>
  BY <1>4, BlockWritten
<1>5. CASE PstorageBurn \/ PstorageBurnFails
  BY <1>1, <1>2, <1>5 DEF PstorageBurn, PstorageBurnFails, EepromWrite, EepromWriteFails
<1>6. CASE SyncCacheToStorage \/ SyncFails
  BY <1>1, <1>3, <1>6 DEF SyncCacheToStorage, SyncFails, EepromWrite, EepromWriteFails
<1>7. CASE WriteBlkPage \/ WriteBlkFails
  BY <1>1, <1>4, <1>7 DEF WriteBlkPage, WriteBlkFails, EepromWrite, EepromWriteFails
<1>8. CASE PstorageInit \/ WriteBlkReturns \/ Crash \/ UNCHANGED vars
  BY <1>1, <1>8 DEF PstorageInit, WriteBlkReturns, Crash, storeVars, vars
<1>9. CASE \/ \E blks \in NumBlks, size \in BlkSizes : PstorageModuleCreate(blks, size)
           \/ \E m \in Mods : \/ PstorageModuleOpen(m) \/ PstorageModuleClose(m)
                             \/ \E b \in Blks : PstorageWriteBlk(m, b)
  BY <1>1, <1>9 DEF PstorageModuleCreate, PstorageModuleOpen, PstorageModuleClose,
                    PstorageWriteBlk, storeVars
<1> QED
  BY <1>5, <1>6, <1>7, <1>8, <1>9 DEF Next

\* The store keeps the promises of ModuleTable, over any number of failed
\* writes and of program runs killed at any page.
THEOREM Refinement == Spec => TableSpec
<1>1. Init => Table!Init
  <2>1. Init => \A m \in ClearMods : ~ Allocated(InfoPage(m))
    <3>1. \A m \in ClearMods : 1 + m \in Pages
      BY Modules
    <3> QED
      BY <3>1, Contents DEF Init, InfoPage
  <2>2. Init => ~ Formatted
    BY Contents, Modules DEF Init, Formatted
  <2> QED
    BY <2>1, <2>2 DEF Table!Init, StoredNext, StoredModules
<1> QED
  BY <1>1, StepRefines, PStorageInvariant, PTL DEF Spec, TableSpec, Table!Spec, Table!vars

=============================================================================
