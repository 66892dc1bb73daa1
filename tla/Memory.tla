------------------------------- MODULE Memory -------------------------------
(***************************************************************************)
(* Physical pages, page tables, and the pages that messages carry:           *)
(* kernel/src/mem.rs, kernel/src/arch/riscv/mem.rs and the memory half of     *)
(* SendMessage, ReturnMemory and terminate_process.  A system call is one     *)
(* step.  A buffer is one page.  The queue of a server (module Server) is a    *)
(* set of messages with QueueLen places; a message that goes straight to a    *)
(* waiting thread is queued and received at once here.                        *)
(*                                                                         *)
(* Processes keep to the ownership rules of their language: they unmap and     *)
(* move only pages of their own, return what they have borrowed once, and do   *)
(* not return what they have lent on.  Two things that the kernel does not      *)
(* prevent break all order and happen only if Accidents names them:             *)
(*    MapOverLent         MapMemory is given the address of a page that the     *)
(*                        process has lent                                    *)
(*    RetryTakesBorrowed  the retry of a send finds a page at its address that   *)
(*                        is not its process's own                             *)
(* The pages of page tables and fixed physical addresses are left out.          *)
(***************************************************************************)
EXTENDS Integers, FiniteSets

CONSTANTS
    Processes,      \* user processes
    Mortal,         \* those that may terminate
    Kernel,         \* PID 1
    Pages,          \* physical pages of RAM, by address
    DefaultArea,    \* virtual pages that MapMemory hands out
    MessageArea,    \* virtual pages that messages are mapped to
    QueueLen,       \* places in a server's queue
    Writables,      \* whether memory is mapped writable
    MaxRetries,     \* bound: calls that wait to be made again
    Accidents,      \* what may go wrong, see above
    None            \* no owner, no physical page

ASSUME MemoryAssumption ==
    /\ Mortal \subseteq Processes
    /\ Pages \subseteq Nat /\ DefaultArea \subseteq Nat /\ MessageArea \subseteq Nat
    /\ QueueLen \in Nat /\ MaxRetries \in Nat
    /\ Writables \subseteq BOOLEAN
    /\ Accidents \subseteq {"MapOverLent", "RetryTakesBorrowed"}
    /\ {Kernel, None} \cap Processes = {} /\ Kernel # None
    /\ None \notin Pages

\* DEFAULT_MESSAGE_BASE and the start of RAM are the same number, so a physical
\* address is also the number of a virtual one.
Virts == DefaultArea \cup MessageArea

VARIABLES
    processes,          \* the processes that exist
    satp,               \* entries of the process table that have, or had, a page table
    allocated,          \* entries that are neither Free nor a process
    MEMORY_ALLOCATIONS, \* the owner of each page
    tables,             \* page tables
    messages,           \* memory messages queued at, or held by, a server
    retries,            \* sends that have met a full queue and will be made again
    stranded,           \* history: lent pages that nobody will return
    leftover,           \* history: mappings that their process knows nothing of
    astray,             \* history: pages released while somebody else mapped them
    leaked,             \* history: pages that have an owner who cannot release them
    panicked            \* the kernel has panicked

table == <<processes, satp, allocated>>
history == <<stranded, leftover, astray, leaked>>
vars == <<table, MEMORY_ALLOCATIONS, tables, messages, retries, history, panicked>>

\* reserved: flags but no VALID bit; lent: the S bit instead of the VALID bit
Entry ==
    [state : {"none", "reserved", "valid", "lent"}, phys : Pages \cup {None}, writable : BOOLEAN]

Zero == [state |-> "none", phys |-> None, writable |-> FALSE]

Kinds == {"Borrow", "MutableBorrow", "Move"}

Message ==
    [client : Processes, caddr : Virts, server : Processes, saddr : Virts, kind : Kinds,
     state : {"queued", "held"}]

Call == [client : Processes, caddr : Virts, server : Processes, kind : Kinds]

Places == Processes \X Virts

TypeOK ==
    /\ processes \subseteq Processes /\ satp \subseteq Processes /\ allocated \subseteq Processes
    /\ MEMORY_ALLOCATIONS \in [Pages -> Processes \cup {Kernel, None}]
    /\ tables \in [Processes -> [Virts -> Entry]]
    /\ messages \subseteq Message /\ retries \subseteq Call
    /\ stranded \subseteq Places /\ leftover \subseteq Places
    /\ astray \subseteq Pages /\ leaked \subseteq Pages
    /\ panicked \in {"no", "oom", "share", "send", "wake"}

\* The loader has started some of the processes.
Init ==
    /\ processes \in SUBSET Processes /\ satp = processes /\ allocated = {}
    /\ MEMORY_ALLOCATIONS = [page \in Pages |-> None]
    /\ tables = [p \in Processes |-> [v \in Virts |-> Zero]]
    /\ messages = {} /\ retries = {}
    /\ stranded = {} /\ leftover = {} /\ astray = {} /\ leaked = {}
    /\ panicked = "no"

-----------------------------------------------------------------------------
Runs(p) == panicked = "no" /\ p \in processes

address_available(p, v) == tables[p][v].state = "none"

FreePages == {page \in Pages : MEMORY_ALLOCATIONS[page] = None}

\* alloc_page: the lowest free page
NextPage == CHOOSE page \in FreePages : \A other \in FreePages : page <= other

\* ensure_page_exists on an entry that is reserved or valid: the page behind it ...
PageBehind(p, v) == IF tables[p][v].state = "reserved" THEN NextPage ELSE tables[p][v].phys

\* ... the entry ...
BackedEntry(p, v) ==
    [state |-> "valid", phys |-> PageBehind(p, v), writable |-> tables[p][v].writable]

\* ... and the owners of pages then.
BackedOwners(p, v) ==
    IF tables[p][v].state = "reserved" THEN [MEMORY_ALLOCATIONS EXCEPT ![NextPage] = p]
    ELSE MEMORY_ALLOCATIONS

\* "Couldn't allocate new page"
OutOfPages(p, v) == tables[p][v].state = "reserved" /\ FreePages = {}

\* The process knows what is mapped at v: a message has been received first.
Knows(p, v) ==
    /\ tables[p][v].state \in {"reserved", "valid"}
    /\ <<p, v>> \notin leftover
    /\ \A m \in messages : m.server = p /\ m.saddr = v => m.state = "held"

\* The process knows it and has not borrowed it.
Owns(p, v) == Knows(p, v) /\ \A m \in messages : ~(m.server = p /\ m.saddr = v)

\* The call waits to be made again, so that its caller does not know how it will end.
Pending(p, v) == \E c \in retries : c.client = p /\ c.caddr = v

\* MapMemory and IncreaseHeap without a physical address.  find_virtual_address looks for a
\* free address of the default area or takes the one that the caller names, whatever it is;
\* reserve_address overwrites an entry that is not VALID (and leaves one that is).
reserve_range(p, v, w) ==
    /\ Runs(p)
    /\ tables[p][v].state # "valid"
    /\ tables[p][v].state = "lent" => "MapOverLent" \in Accidents
    /\ tables' = [tables EXCEPT ![p][v] = [Zero EXCEPT !.state = "reserved", !.writable = w]]
    /\ UNCHANGED <<table, MEMORY_ALLOCATIONS, messages, retries, history, panicked>>

\* A page fault on a reserved page
ensure_page_exists(p, v) ==
    /\ Runs(p)
    /\ tables[p][v].state = "reserved"
    /\ IF OutOfPages(p, v)
       THEN panicked' = "oom" /\ UNCHANGED <<MEMORY_ALLOCATIONS, tables>>
       ELSE /\ MEMORY_ALLOCATIONS' = BackedOwners(p, v)
            /\ tables' = [tables EXCEPT ![p][v] = BackedEntry(p, v)]
            /\ UNCHANGED panicked
    /\ UNCHANGED <<table, messages, retries, history>>

\* claim_release_move: Release, whose error unmap_page ignores
Released(page, p) ==
    IF MEMORY_ALLOCATIONS[page] = p THEN [MEMORY_ALLOCATIONS EXCEPT ![page] = None]
    ELSE MEMORY_ALLOCATIONS

\* UnmapMemory and DecreaseHeap
unmap_page(p, v) ==
    /\ Runs(p) /\ Owns(p, v)
    /\ MEMORY_ALLOCATIONS' = IF tables[p][v].state = "valid" THEN Released(tables[p][v].phys, p)
                             ELSE MEMORY_ALLOCATIONS
    /\ tables' = [tables EXCEPT ![p][v] = Zero]
    /\ UNCHANGED <<table, messages, retries, history, panicked>>

\* The same after a send that has failed with the page lent: virt_to_phys refuses a lent
\* page, so the entry goes and the page stays claimed.
UnmapStranded(p, v) ==
    /\ Runs(p) /\ <<p, v>> \in stranded \ leftover /\ ~Pending(p, v)
    /\ \A m \in messages : ~(m.server = p /\ m.saddr = v)
    /\ tables' = [tables EXCEPT ![p][v] = Zero]
    /\ stranded' = stranded \ {<<p, v>>}
    /\ leaked' = leaked \cup {tables[p][v].phys}
    /\ UNCHANGED <<table, MEMORY_ALLOCATIONS, messages, retries, leftover, astray, panicked>>

-----------------------------------------------------------------------------
(* SendMessage *)

HasRoom(q) == Cardinality({m \in messages : m.server = q}) < QueueLen

\* move_page_inner
MovedTables(p, v, q, d) == [tables EXCEPT ![p][v] = Zero, ![q][d] = BackedEntry(p, v)]

\* "Strip the `VALID` flag, and set the `SHARED` flag."
LentEntry(p, v) == [BackedEntry(p, v) EXCEPT !.state = "lent"]

\* Variant: a borrow that is not mutable is writable where the page was.
BorrowedEntry_Writable(p, v, mutable) == BackedEntry(p, v)

\* The borrower's entry is writable if the borrow is mutable and the page is writable here.
BorrowedEntry(p, v, mutable) == [BackedEntry(p, v) EXCEPT !.writable = @ /\ mutable]

\* lend_page_inner
LentTables(p, v, q, d, mutable) ==
    [tables EXCEPT ![p][v] = LentEntry(p, v), ![q][d] = BorrowedEntry(p, v, mutable)]

\* Within a process nothing is moved or lent, and the address stays.
Within(p, v) == [tables EXCEPT ![p][v] = BackedEntry(p, v)]

\* The destination is any page of the message area that is free there.
Destination(p, v, q, d) ==
    IF p = q THEN d = v ELSE d \in MessageArea /\ address_available(q, d)

\* send_memory and lend_memory: page tables and owners
Transfer(p, v, q, d, kind) ==
    /\ tables' = CASE p = q -> Within(p, v)
                   [] p # q /\ kind = "Move" -> MovedTables(p, v, q, d)
                   [] OTHER -> LentTables(p, v, q, d, kind = "MutableBorrow")
    /\ MEMORY_ALLOCATIONS' = IF p # q /\ kind = "Move"
                             THEN [MEMORY_ALLOCATIONS EXCEPT ![PageBehind(p, v)] = q]
                             ELSE BackedOwners(p, v)

\* What a process asks for: it moves what it owns and lends what it knows.
MaySend(p, v, q, d, kind) ==
    /\ Runs(p) /\ q \in processes
    /\ IF kind = "Move" THEN Owns(p, v) ELSE Knows(p, v)
    /\ Destination(p, v, q, d)

\* claim_release_move: MemoryInUse, which send_memory turns into "unable to send"
NotMovable(p, v, q, kind) ==
    /\ p # q /\ kind = "Move" /\ tables[p][v].state = "valid"
    /\ MEMORY_ALLOCATIONS[tables[p][v].phys] \notin {None, p, q}

SendPanics(p, v, q, kind, others) ==
    /\ OutOfPages(p, v) \/ NotMovable(p, v, q, kind)
    /\ panicked' = IF OutOfPages(p, v) THEN "oom" ELSE "send"
    /\ retries' = others
    /\ UNCHANGED <<table, MEMORY_ALLOCATIONS, tables, messages, history>>

Send(p, v, q, d, kind, others) ==
    /\ ~OutOfPages(p, v) /\ ~NotMovable(p, v, q, kind)
    /\ HasRoom(q)
    /\ Transfer(p, v, q, d, kind)
    /\ messages' = messages \cup {[client |-> p, caddr |-> v, server |-> q, saddr |-> d,
                                   kind |-> kind, state |-> "queued"]}
    /\ retries' = others
    /\ UNCHANGED <<table, history, panicked>>

\* A Move to a waiting thread needs no place in the queue.
SendMoveDirect(p, v, q, d, others) ==
    /\ ~OutOfPages(p, v) /\ ~NotMovable(p, v, q, "Move")
    /\ ~HasRoom(q)
    /\ \A m \in messages : m.server = q => m.state = "held"
    /\ Transfer(p, v, q, d, "Move")
    /\ retries' = others
    /\ UNCHANGED <<table, messages, history, panicked>>

\* The queue is full: the page has gone over all the same, and the call will be made again.
\* Within a process the page is where it was, so that the call is one that is yet to be made.
SendUnqueued(p, v, q, d, kind, others) ==
    /\ ~OutOfPages(p, v) /\ ~NotMovable(p, v, q, kind)
    /\ ~HasRoom(q)
    /\ Transfer(p, v, q, d, kind)
    /\ IF p = q THEN retries' = others /\ UNCHANGED <<stranded, leftover>>
       ELSE /\ Cardinality(others) < MaxRetries
            /\ retries' = others \cup {[client |-> p, caddr |-> v, server |-> q, kind |-> kind]}
            /\ stranded' = IF kind = "Move" THEN stranded ELSE stranded \cup {<<p, v>>}
            /\ leftover' = leftover \cup {<<q, d>>}
    /\ UNCHANGED <<table, messages, astray, leaked, panicked>>

\* send_message, with the other calls that wait to be made again
Attempt(p, v, q, d, kind, others) ==
    \/ Send(p, v, q, d, kind, others)
    \/ SendUnqueued(p, v, q, d, kind, others)
    \/ SendPanics(p, v, q, kind, others)
    \/ kind = "Move" /\ SendMoveDirect(p, v, q, d, others)

SendMessage(p, v, q, d, kind) ==
    MaySend(p, v, q, d, kind) /\ Attempt(p, v, q, d, kind, retries)

\* retry_syscall, in a later time slice: the call takes whatever is at its address by then ...
SendAgain(c, d) ==
    /\ Runs(c.client) /\ c.server \in processes
    /\ tables[c.client][c.caddr].state \in {"reserved", "valid"}
    /\ Owns(c.client, c.caddr) \/ "RetryTakesBorrowed" \in Accidents
    /\ Destination(c.client, c.caddr, c.server, d)
    /\ Attempt(c.client, c.caddr, c.server, d, c.kind, retries \ {c})

\* ... and ends with BadAddress if there is nothing, or a page that is lent.
SendFails(c) ==
    /\ Runs(c.client)
    /\ tables[c.client][c.caddr].state \in {"none", "lent"}
    /\ retries' = retries \ {c}
    /\ UNCHANGED <<table, MEMORY_ALLOCATIONS, tables, messages, history, panicked>>

-----------------------------------------------------------------------------
(* ReceiveMessage and ReturnMemory *)

\* A Move leaves the queue as it is received.
Receive(m) ==
    /\ Runs(m.server)
    /\ m.state = "queued"
    /\ messages' = IF m.kind = "Move" THEN messages \ {m}
                   ELSE (messages \ {m}) \cup {[m EXCEPT !.state = "held"]}
    /\ UNCHANGED <<table, MEMORY_ALLOCATIONS, tables, retries, history, panicked>>

MayReturn(m) ==
    /\ Runs(m.server)
    /\ m.state = "held"
    /\ tables[m.server][m.saddr].state = "valid"

\* Variant: the server keeps its mapping.
ReturnedTables_Kept(m) == [tables EXCEPT ![m.client][m.caddr].state = "valid"]

\* return_page_inner
ReturnedTables(m) ==
    IF m.client = m.server THEN tables
    ELSE [tables EXCEPT ![m.server][m.saddr] = Zero, ![m.client][m.caddr].state = "valid"]

\* take_waiting_message and SystemServices::return_memory; the latter panics with "page
\* wasn't shared in destination space"
ReturnMemory(m) ==
    /\ MayReturn(m)
    /\ m.client \in processes
    /\ messages' = messages \ {m}
    /\ IF m.client = m.server \/ tables[m.client][m.caddr].state = "lent"
       THEN tables' = ReturnedTables(m) /\ UNCHANGED panicked
       ELSE panicked' = "share" /\ UNCHANGED tables
    /\ UNCHANGED <<table, MEMORY_ALLOCATIONS, retries, history>>

\* The client is gone: get_process fails after take_waiting_message has emptied the entry.
\* (Its entry was marked in the queue, but what is received is WaitingReturnMemory all the same.)
ReturnToNobody(m) ==
    /\ MayReturn(m)
    /\ m.client \notin processes \cup allocated
    /\ messages' = messages \ {m}
    /\ leftover' = leftover \cup {<<m.server, m.saddr>>}
    /\ UNCHANGED <<table, MEMORY_ALLOCATIONS, tables, retries, stranded, astray, leaked, panicked>>

\* The client is gone and its entry is Allocated: get_process finds it, with the page table
\* that was released.  Whatever is in that page by now decides whether return_page_inner
\* panics, or ready_thread does afterwards.
ReturnToAllocated(m) ==
    /\ MayReturn(m)
    /\ m.client \in allocated
    /\ panicked' \in {"share", "wake"}
    /\ UNCHANGED <<table, MEMORY_ALLOCATIONS, tables, messages, retries, history>>

\* The page is not valid in the server, which has tried to lend it on: return_page_inner ends
\* with ShareViolation, after the entry in the queue has been emptied.
ReturnFails(m) ==
    /\ Runs(m.server)
    /\ m.state = "held"
    /\ tables[m.server][m.saddr].state # "valid" /\ ~Pending(m.server, m.saddr)
    /\ \A n \in messages : n.client = m.server /\ n.caddr = m.saddr => n.server = n.client
    /\ messages' = messages \ {m}
    /\ IF m.client = m.server THEN UNCHANGED <<stranded, leftover>>
       ELSE /\ stranded' = stranded \cup ({<<m.client, m.caddr>>} \cap (processes \X Virts))
            /\ leftover' = leftover \cup {<<m.server, m.saddr>>}
    /\ UNCHANGED <<table, MEMORY_ALLOCATIONS, tables, retries, astray, leaked, panicked>>

-----------------------------------------------------------------------------
(* terminate_process *)

\* The argument is a physical address, and it is looked up as a virtual one.
page_is_lent(p, page) == page \in Virts /\ tables[p][page].state = "lent"

MappedElsewhere(p, page) ==
    \E q \in processes \ {p}, v \in Virts : tables[q][v].phys = page

\* Variant: the pages of a process stay with it.
release_all_memory_for_process_Kept(p) == MEMORY_ALLOCATIONS

release_all_memory_for_process(p) ==
    [page \in Pages |->
        IF MEMORY_ALLOCATIONS[page] # p THEN MEMORY_ALLOCATIONS[page]
        ELSE IF page_is_lent(p, page) THEN Kernel ELSE None]

\* Its servers go with it, so what was lent to them stays lent, and calls that wait to be made
\* again find no server.
TerminateProcess(p) ==
    /\ Runs(p) /\ p \in Mortal
    /\ processes' = processes \ {p}
    /\ MEMORY_ALLOCATIONS' = release_all_memory_for_process(p)
    /\ tables' = [tables EXCEPT ![p] = [v \in Virts |-> Zero]]
    /\ messages' = {m \in messages : m.server # p}
    /\ retries' = {c \in retries : c.client # p /\ c.server # p}
    /\ stranded' = {x \in stranded : x[1] # p} \cup
                   {<<m.client, m.caddr>> : m \in {n \in messages :
                        n.server = p /\ n.kind # "Move" /\ n.client \in processes \ {p}}}
    /\ leftover' = {x \in leftover : x[1] # p}
    /\ astray' = astray \cup {page \in Pages : /\ MEMORY_ALLOCATIONS[page] = p
                                              /\ ~page_is_lent(p, page)
                                              /\ MappedElsewhere(p, page)}
    /\ leaked' = {page \in leaked : MEMORY_ALLOCATIONS[page] # p} \cup
                 {page \in Pages : MEMORY_ALLOCATIONS[page] = p /\ page_is_lent(p, page)}
    /\ UNCHANGED <<satp, allocated, panicked>>

\* The entry is Allocated before MemoryMapping::allocate is called, which refuses an entry
\* with a satp; and terminate leaves the satp in place.
create_process(p) ==
    /\ panicked = "no"
    /\ p \notin processes \cup allocated
    /\ IF p \in satp
       THEN allocated' = allocated \cup {p} /\ UNCHANGED <<processes, satp>>
       ELSE processes' = processes \cup {p} /\ satp' = satp \cup {p} /\ UNCHANGED allocated
    /\ UNCHANGED <<MEMORY_ALLOCATIONS, tables, messages, retries, history, panicked>>

-----------------------------------------------------------------------------
Next ==
    \/ \E p \in Processes, v \in Virts :
          \/ \E w \in Writables : reserve_range(p, v, w)
          \/ ensure_page_exists(p, v)
          \/ unmap_page(p, v)
          \/ UnmapStranded(p, v)
    \/ \E p, q \in Processes, v, d \in Virts, kind \in Kinds : SendMessage(p, v, q, d, kind)
    \/ \E c \in retries :
          \/ \E d \in Virts : SendAgain(c, d)
          \/ SendFails(c)
    \/ \E m \in messages :
          \/ Receive(m)
          \/ ReturnMemory(m)
          \/ ReturnToNobody(m)
          \/ ReturnToAllocated(m)
          \/ ReturnFails(m)
    \/ \E p \in Processes : TerminateProcess(p) \/ create_process(p)

Spec == Init /\ [][Next]_vars

-----------------------------------------------------------------------------
(* Properties *)

MappedAt(page, states) ==
    {x \in Places : tables[x[1]][x[2]].phys = page /\ tables[x[1]][x[2]].state \in states}

\* lend_memory: "we avoid getting into a situation where memory may appear in two
\* different processes at once".  A page is mapped for use in one place at most: also if the
\* borrow is immutable, of which other comments say that the lender can still read.
\* Exempt are pages that were released while somebody else mapped them (LentPagesKept).
OneMapping ==
    \A page \in Pages \ astray : Cardinality(MappedAt(page, {"valid"})) <= 1

\* However pages are lent, lent on, moved, returned and left behind: a free page is in no page
\* table, so it is not handed out twice; a page that a process owns is in its table, be it as
\* a leftover, or is leaked; and one that the kernel has taken over is leaked.  There are two
\* ways to leak: the owner unmaps a lent page whose return has failed (UnmapStranded), and
\* page_is_lent is true of a dying process by accident (TerminateProcess).
\* Exempt are pages that were released while somebody else mapped them (LentPagesKept).
PagesAccounted ==
    \A page \in Pages \ astray :
        LET owner == MEMORY_ALLOCATIONS[page]
        IN  /\ owner = None => MappedAt(page, {"valid", "lent"}) = {}
            /\ owner \in Processes =>
                 /\ owner \in processes
                 /\ page \in leaked \/ \E x \in MappedAt(page, {"valid", "lent"}) : x[1] = owner
            /\ owner = Kernel => page \in leaked

\* return_page_inner panics with "page wasn't shared in destination space" only if the PID of
\* a dead client has been asked for again, which leaves an entry that is no process.
SharePanicExplained == panicked = "share" => allocated # {}

\* The messages that will bring back what process p has lent from address v.
LendsOf(p, v) ==
    {m \in messages : m.client = p /\ m.caddr = v /\ m.server # p /\ m.kind # "Move"}

\* Message m has lent the page of this entry, with no more rights than the entry has.
Recorded(m, entry) ==
    LET there == tables[m.server][m.saddr]
    IN  /\ m.server \in processes
        /\ there.phys = entry.phys
        /\ there.writable => m.kind = "MutableBorrow" /\ entry.writable

\* A lent page either has one message that will bring it back, from a server that maps the
\* same page, writable only if that is what was lent; or it is stranded and has none, because
\* the queue was full, the server died, or the server had lent it on in vain.  And every
\* message of a living client finds its page lent, so that no return panics.
LendsOnRecord ==
    /\ TypeOK /\ SharePanicExplained
    /\ \A p \in processes, v \in Virts :
         /\ tables[p][v].state = "lent" /\ <<p, v>> \notin stranded =>
              \E m \in LendsOf(p, v) : LendsOf(p, v) = {m} /\ Recorded(m, tables[p][v])
         /\ <<p, v>> \in stranded => tables[p][v].state = "lent" /\ LendsOf(p, v) = {}
         /\ LendsOf(p, v) # {} => tables[p][v].state = "lent"

\* release_all_memory_for_process: "If the page is lent, reparent it to PID 1 so it will get
\* freed when it is returned": no page is free while a server still maps it.
LentPagesKept ==
    \A page \in Pages : MEMORY_ALLOCATIONS[page] = None => MappedAt(page, {"valid"}) = {}
=============================================================================
