--------------------------- MODULE Memory_proofs ---------------------------
(***************************************************************************)
(* Proofs about the pages of memory and the messages that carry them, for    *)
(* every number of processes, pages and addresses and every length of the     *)
(* queue.                                                                    *)
(*                                                                         *)
(* The invariant is stated of values, and the lemmas about it too: P the        *)
(* processes that exist, O the owners of pages, T the page tables, N the        *)
(* messages that lend, S what is stranded, L what is left over, A the pages      *)
(* that have gone astray and K the leaked ones.  A send is then the composition  *)
(* of backing a page and of handing it over.                                 *)
(*                                                                         *)
(* The theorems assume that Accidents is empty: after one, nothing of this holds. *)
(***************************************************************************)
EXTENDS Memory, FiniteSetTheorems, WellFoundedInduction, TLAPS

-----------------------------------------------------------------------------
(* The inductive invariant *)

\* The entry at a place, and whether a page stands behind it.
EntryAt(T, x) == T[x[1]][x[2]]
Used(T, x) == EntryAt(T, x).state \in {"valid", "lent"}
Maps(T, x, page) == Used(T, x) /\ EntryAt(T, x).phys = page

\* The messages that lend a page to another process; where it was lent from, and to.
Lending == {m \in Message : m.client # m.server /\ m.kind # "Move"}
Lends(M) == {m \in M : m.client # m.server /\ m.kind # "Move"}
Home(m) == <<m.client, m.caddr>>
Away(m) == <<m.server, m.saddr>>

EntriesOK(P, T) ==
    /\ P \subseteq Processes
    /\ T \in [Processes -> [Virts -> Entry]]
    /\ \A x \in Places : Used(T, x) => EntryAt(T, x).phys \in Pages
    /\ \A x \in Places : x[1] \notin P => EntryAt(T, x).state = "none"

\* A message that lends leads from a lent entry to one with the same page, and no other
\* message leads from there or to there.
LendsOK(P, T, N, S, L) ==
    /\ N \subseteq Lending
    /\ \A m \in N :
          /\ m.server \in P /\ Used(T, Away(m)) /\ Away(m) \notin L
          /\ m.client \in P =>
                /\ EntryAt(T, Home(m)).state = "lent" /\ Home(m) \notin S
                /\ EntryAt(T, Away(m)).phys = EntryAt(T, Home(m)).phys
                /\ EntryAt(T, Away(m)).writable =>
                      m.kind = "MutableBorrow" /\ EntryAt(T, Home(m)).writable
    /\ \A m, n \in N : Away(m) = Away(n) \/ (Home(m) = Home(n) /\ m.client \in P) => m = n

\* Every other lent entry is stranded, and what is left over is in use.
RestOK(P, T, N, S, L) ==
    /\ S \subseteq Places /\ L \subseteq Places
    /\ \A x \in S : x[1] \in P /\ EntryAt(T, x).state = "lent"
    /\ \A x \in L : Used(T, x)
    /\ \A x \in Places : EntryAt(T, x).state = "lent" /\ x \notin S => \E m \in N : Home(m) = x

Borrowed(N, x) == \E m \in N : Away(m) = x

\* The owner of a page is known by an entry that is not borrowed, or the page is leaked.
OwnersOK(P, O, T, N, L, A, K) ==
    /\ O \in [Pages -> Processes \cup {Kernel, None}] /\ A \subseteq Pages /\ K \subseteq Pages
    /\ \A page \in Pages \ A :
          /\ O[page] = None => \A x \in Places : ~Maps(T, x, page)
          /\ O[page] \in Processes =>
                /\ O[page] \in P
                /\ page \in K \/ \E x \in Places : x[1] = O[page] /\ Maps(T, x, page) /\ ~Borrowed(N, x)
          /\ O[page] = Kernel => page \in K
          /\ \A x \in Places : Maps(T, x, page) /\ ~Borrowed(N, x) /\ x \notin L => O[page] = x[1]

\* The places that map a page, in the order in which it came to them: the one that owns it is
\* the first, the one that can use it is the last, and where it was lent from is just before
\* where it was lent to.
ChainOK(T, N, L, A, depth) ==
    \A page \in Pages \ A : \A x \in Places : Maps(T, x, page) =>
        /\ \A y \in Places :
              /\ Maps(T, y, page) /\ y # x
              /\ (~Borrowed(N, x) /\ x \notin L) \/ EntryAt(T, y).state = "valid"
              => depth[x] < depth[y]
        /\ \A m \in N : Home(m) = x => \A z \in Places : Maps(T, z, page) /\ z # x /\ z # Away(m) =>
              depth[z] < depth[x] \/ depth[Away(m)] < depth[z]

Depths == [Places -> Nat]

Good(P, O, T, N, S, L, A, K) ==
    /\ EntriesOK(P, T)
    /\ LendsOK(P, T, N, S, L)
    /\ RestOK(P, T, N, S, L)
    /\ OwnersOK(P, O, T, N, L, A, K)
    /\ \E depth \in Depths : ChainOK(T, N, L, A, depth)

\* A Move is never held, and a message within a process leaves its page where it is.
MessagesOK ==
    \A m \in messages : /\ m.state = "held" => m.kind # "Move"
                        /\ m.client = m.server => m.caddr = m.saddr

\* A message names a process that was there once, and so does not meet a new one.
ClientsOK ==
    /\ processes \subseteq satp
    /\ \A m \in messages : m.client \in satp

IInv ==
    /\ TypeOK /\ MessagesOK /\ ClientsOK /\ SharePanicExplained
    /\ Good(processes, MEMORY_ALLOCATIONS, tables, Lends(messages), stranded, leftover, astray, leaked)

-----------------------------------------------------------------------------
(* What follows from the invariant *)

\* A place in use belongs to a process that exists.
LEMMA UsedLives ==
    ASSUME NEW P, NEW T, EntriesOK(P, T), NEW x \in Places, Used(T, x)
    PROVE  x[1] \in P /\ EntryAt(T, x).phys \in Pages
BY DEF EntriesOK, Used

LEMMA MessagePlaces ==
    ASSUME NEW m \in Lending
    PROVE  /\ Home(m) \in Places /\ Away(m) \in Places /\ Home(m) # Away(m)
           /\ Home(m)[1] = m.client /\ Away(m)[1] = m.server
           /\ m.client \in Processes /\ m.server \in Processes
           /\ Home(m)[2] = m.caddr /\ Away(m)[2] = m.saddr
BY DEF Lending, Message, Home, Away, Places

\* A place from which nothing is borrowed and that can be used is the only one of its page.
LEMMA AloneWhenRooted ==
    ASSUME NEW T, NEW N, NEW L, NEW A, NEW depth \in Depths, ChainOK(T, N, L, A, depth),
           NEW page \in Pages \ A, NEW x \in Places, Maps(T, x, page), EntryAt(T, x).state = "valid",
           ~Borrowed(N, x), x \notin L, NEW y \in Places, Maps(T, y, page)
    PROVE  y = x
<1> SUFFICES ASSUME y # x PROVE FALSE
    OBVIOUS
<1>1. depth[x] < depth[y] /\ depth[y] < depth[x]
    BY DEF ChainOK
<1>2. depth[x] \in Nat /\ depth[y] \in Nat
    BY DEF Depths
<1> QED BY <1>1, <1>2

\* Two places of one page cannot both be used.
LEMMA OneValid ==
    ASSUME NEW T, NEW N, NEW L, NEW A, NEW depth \in Depths, ChainOK(T, N, L, A, depth),
           NEW page \in Pages \ A, NEW x \in Places, Maps(T, x, page), EntryAt(T, x).state = "valid",
           NEW y \in Places, Maps(T, y, page), EntryAt(T, y).state = "valid"
    PROVE  y = x
<1> SUFFICES ASSUME y # x PROVE FALSE
    OBVIOUS
<1>1. depth[x] < depth[y] /\ depth[y] < depth[x]
    BY DEF ChainOK
<1>2. depth[x] \in Nat /\ depth[y] \in Nat
    BY DEF Depths
<1> QED BY <1>1, <1>2

-----------------------------------------------------------------------------
(* The operations on entries *)

\* An entry without a page changes to another one.
LEMMA UnusedKept ==
    ASSUME NEW P, NEW O, NEW T, NEW N, NEW S, NEW L, NEW A, NEW K, Good(P, O, T, N, S, L, A, K),
           NEW U \in [Processes -> [Virts -> Entry]], NEW x \in Places, x[1] \in P,
           ~Used(T, x), ~Used(U, x), \A z \in Places : z # x => EntryAt(U, z) = EntryAt(T, z)
    PROVE  Good(P, O, U, N, S, L, A, K)
<1>0. N \subseteq Lending /\ S \subseteq Places /\ L \subseteq Places
    BY DEF Good, LendsOK, RestOK
<1>1. \A z \in Places : /\ Used(U, z) <=> Used(T, z)
                        /\ EntryAt(U, z).state = "lent" <=> EntryAt(T, z).state = "lent"
                        /\ EntryAt(U, z).state = "valid" <=> EntryAt(T, z).state = "valid"
                        /\ Used(T, z) => EntryAt(U, z) = EntryAt(T, z)
    BY DEF Used
<1>2. \A z \in Places : \A page : Maps(U, z, page) <=> Maps(T, z, page)
    BY <1>1 DEF Maps
<1>3. EntriesOK(P, U)
    BY <1>1 DEF Good, EntriesOK
<1>4. LendsOK(P, U, N, S, L)
  <2>1. \A m \in N : /\ Home(m) \in Places /\ Away(m) \in Places
                     /\ EntryAt(T, Home(m)).state = "lent" => Used(T, Home(m))
      BY <1>0, MessagePlaces DEF Used
  <2> QED BY <1>0, <1>1, <2>1 DEF Good, LendsOK
<1>5. RestOK(P, U, N, S, L)
    BY <1>0, <1>1 DEF Good, RestOK
<1>6. OwnersOK(P, O, U, N, L, A, K)
    BY <1>2 DEF Good, OwnersOK
<1>7. PICK depth \in Depths : ChainOK(T, N, L, A, depth)
    BY DEF Good
<1>8. ChainOK(U, N, L, A, depth)
    BY <1>1, <1>2, <1>7 DEF ChainOK
<1> QED BY <1>3, <1>4, <1>5, <1>6, <1>8 DEF Good

\* ensure_page_exists: a page that was free stands behind an entry that was reserved.
LEMMA Backed ==
    ASSUME NEW P, NEW O, NEW T, NEW N, NEW S, NEW L, NEW A, NEW K, Good(P, O, T, N, S, L, A, K),
           NEW U \in [Processes -> [Virts -> Entry]], NEW x \in Places, x[1] \in P,
           NEW page \in Pages, O[page] = None,
           ~Used(T, x), EntryAt(U, x).state = "valid", EntryAt(U, x).phys = page,
           \A z \in Places : z # x => EntryAt(U, z) = EntryAt(T, z)
    PROVE  Good(P, [O EXCEPT ![page] = x[1]], U, N, S, L, A, K)
<1> DEFINE Q == [O EXCEPT ![page] = x[1]]
<1>0. N \subseteq Lending /\ S \subseteq Places /\ L \subseteq Places
      /\ \A m \in N : Home(m) \in Places /\ Away(m) \in Places
    BY MessagePlaces DEF Good, LendsOK, RestOK
<1>1. \A z \in Places : z # x => /\ Used(U, z) <=> Used(T, z)
                                 /\ EntryAt(U, z) = EntryAt(T, z)
    BY DEF Used
<1>2. /\ Used(U, x) /\ EntryAt(T, x).state # "lent" /\ x \notin S /\ x \notin L
      /\ ~Borrowed(N, x) /\ \A m \in N : Home(m) # x /\ Away(m) # x
  <2>1. Used(U, x) /\ EntryAt(T, x).state # "lent"
      BY DEF Used
  <2>2. \A m \in N : Away(m) # x
      BY DEF Good, LendsOK
  <2>3. \A m \in N : Home(m) # x
    <3> SUFFICES ASSUME NEW m \in N, Home(m) = x PROVE FALSE
        OBVIOUS
    <3>1. m.client \in P
        BY <1>0, MessagePlaces
    <3> QED BY <2>1, <3>1 DEF Good, LendsOK
  <2> QED BY <2>1, <2>2, <2>3 DEF Good, RestOK, Borrowed
<1>3. /\ \A z \in Places : z # x => \A g : Maps(U, z, g) <=> Maps(T, z, g)
      /\ \A g : Maps(U, x, g) <=> g = page
      /\ \A g : ~Maps(T, x, g)
    BY <1>1, <1>2 DEF Maps
<1>4. EntriesOK(P, U)
    BY <1>1 DEF Good, EntriesOK
<1>5. LendsOK(P, U, N, S, L)
    BY <1>0, <1>1, <1>2 DEF Good, LendsOK
<1>6. RestOK(P, U, N, S, L)
    BY <1>0, <1>1, <1>2 DEF Good, RestOK
<1>7. \A z \in Places : page \notin A => ~Maps(T, z, page)
    BY DEF Good, OwnersOK
<1>8. OwnersOK(P, Q, U, N, L, A, K)
  <2>1. /\ O \in [Pages -> Processes \cup {Kernel, None}] /\ A \subseteq Pages /\ K \subseteq Pages
        /\ x[1] \in Processes /\ x[1] # None /\ x[1] # Kernel
      BY MemoryAssumption DEF Good, OwnersOK, EntriesOK
  <2>2. Q \in [Pages -> Processes \cup {Kernel, None}] /\ Q[page] = x[1]
        /\ \A g \in Pages : g # page => Q[g] = O[g]
      BY <2>1
  <2> HIDE DEF Q
  <2> SUFFICES ASSUME NEW g \in Pages \ A
               PROVE  /\ Q[g] = None => \A z \in Places : ~Maps(U, z, g)
                      /\ Q[g] \in Processes =>
                            /\ Q[g] \in P
                            /\ g \in K \/ \E z \in Places : z[1] = Q[g] /\ Maps(U, z, g) /\ ~Borrowed(N, z)
                      /\ Q[g] = Kernel => g \in K
                      /\ \A z \in Places : Maps(U, z, g) /\ ~Borrowed(N, z) /\ z \notin L => Q[g] = z[1]
      BY <2>1, <2>2 DEF OwnersOK
  <2>3. CASE g = page
      BY <1>2, <1>3, <1>7, <2>1, <2>2, <2>3
  <2>4. CASE g # page
      BY <1>3, <2>2, <2>4 DEF Good, OwnersOK
  <2> QED BY <2>3, <2>4
<1>9. PICK depth \in Depths : ChainOK(T, N, L, A, depth)
    BY DEF Good
<1>10. ChainOK(U, N, L, A, depth)
  <2> SUFFICES ASSUME NEW g \in Pages \ A, NEW z \in Places, Maps(U, z, g)
               PROVE  /\ \A y \in Places :
                            /\ Maps(U, y, g) /\ y # z
                            /\ (~Borrowed(N, z) /\ z \notin L) \/ EntryAt(U, y).state = "valid"
                            => depth[z] < depth[y]
                      /\ \A m \in N : Home(m) = z =>
                            \A y \in Places : Maps(U, y, g) /\ y # z /\ y # Away(m) =>
                                depth[y] < depth[z] \/ depth[Away(m)] < depth[y]
      BY DEF ChainOK
  <2>1. CASE g = page
      BY <1>3, <1>7, <2>1
  <2>2. CASE g # page
      BY <1>1, <1>3, <1>9, <2>2 DEF ChainOK
  <2> QED BY <2>1, <2>2
<1> QED BY <1>4, <1>5, <1>6, <1>8, <1>10 DEF Good

\* A place that is not borrowed and not left over loses its page, which is then in no page
\* table; the page is free, or it appears at another place that was empty.
LEMMA Handed ==
    ASSUME NEW P, NEW O, NEW T, NEW N, NEW S, NEW L, NEW A, NEW K, Good(P, O, T, N, S, L, A, K),
           NEW U \in [Processes -> [Virts -> Entry]], NEW x \in Places, NEW page \in Pages,
           EntryAt(T, x).state = "valid", EntryAt(T, x).phys = page, ~Borrowed(N, x), x \notin L,
           EntryAt(U, x).state = "none"
    PROVE  /\ x[1] \in P /\ x \notin S /\ (\A m \in N : Home(m) # x /\ Away(m) # x)
           /\ ~Used(U, x) /\ Used(T, x) /\ EntryAt(T, x).state # "lent"
           /\ (\A g : ~Maps(U, x, g)) /\ (\A g : Maps(T, x, g) <=> g = page)
           /\ page \notin A => O[page] = x[1] /\ \A z \in Places : Maps(T, z, page) => z = x
<1>1. Used(T, x) /\ x[1] \in P /\ Maps(T, x, page)
    BY UsedLives DEF Good, Used, Maps
<1>2. x \notin S
    BY DEF Good, RestOK
<1>3. \A m \in N : Away(m) # x
    BY DEF Borrowed
<1>4. ASSUME NEW m \in N, Home(m) = x PROVE FALSE
  <2>1. m.client \in P
      BY <1>1, <1>4, MessagePlaces DEF Good, LendsOK
  <2> QED BY <1>4, <2>1 DEF Good, LendsOK
<1>5. page \notin A => O[page] = x[1]
    BY <1>1 DEF Good, OwnersOK
<1>6. ASSUME page \notin A, NEW z \in Places, Maps(T, z, page) PROVE z = x
  <2>1. PICK depth \in Depths : ChainOK(T, N, L, A, depth)
      BY DEF Good
  <2> QED BY <1>1, <1>6, <2>1, AloneWhenRooted
<1>7. ~Used(U, x) /\ EntryAt(T, x).state # "lent"
    BY DEF Used
<1>8. (\A g : ~Maps(U, x, g)) /\ \A g : Maps(T, x, g) <=> g = page
    BY <1>1, <1>7 DEF Maps
<1> QED BY <1>1, <1>2, <1>3, <1>4, <1>5, <1>6, <1>7, <1>8

\* unmap_page
LEMMA Unmapped ==
    ASSUME NEW P, NEW O, NEW T, NEW N, NEW S, NEW L, NEW A, NEW K, Good(P, O, T, N, S, L, A, K),
           NEW U \in [Processes -> [Virts -> Entry]], NEW x \in Places, NEW page \in Pages,
           EntryAt(T, x).state = "valid", EntryAt(T, x).phys = page, ~Borrowed(N, x), x \notin L,
           EntryAt(U, x).state = "none", \A z \in Places : z # x => EntryAt(U, z) = EntryAt(T, z),
           NEW Q, Q = IF O[page] = x[1] THEN [O EXCEPT ![page] = None] ELSE O
    PROVE  Good(P, Q, U, N, S, L, A, K)
<1>0. N \subseteq Lending /\ S \subseteq Places /\ L \subseteq Places
      /\ \A m \in N : Home(m) \in Places /\ Away(m) \in Places
    BY MessagePlaces DEF Good, LendsOK, RestOK
<1>1. /\ x[1] \in P /\ x \notin S /\ (\A m \in N : Home(m) # x /\ Away(m) # x)
      /\ ~Used(U, x) /\ Used(T, x) /\ EntryAt(T, x).state # "lent"
      /\ (\A g : ~Maps(U, x, g)) /\ (\A g : Maps(T, x, g) <=> g = page)
      /\ page \notin A => O[page] = x[1] /\ \A z \in Places : Maps(T, z, page) => z = x
    BY Handed
<1>2. \A z \in Places : z # x => /\ Used(U, z) <=> Used(T, z)
                                 /\ EntryAt(U, z) = EntryAt(T, z)
                                 /\ \A g : Maps(U, z, g) <=> Maps(T, z, g)
    BY DEF Used, Maps
<1>3. EntriesOK(P, U)
    BY <1>1, <1>2 DEF Good, EntriesOK
<1>4. LendsOK(P, U, N, S, L)
    BY <1>0, <1>1, <1>2 DEF Good, LendsOK
<1>5. RestOK(P, U, N, S, L)
    BY <1>0, <1>1, <1>2 DEF Good, RestOK
<1>6. OwnersOK(P, Q, U, N, L, A, K)
  <2>1. O \in [Pages -> Processes \cup {Kernel, None}] /\ A \subseteq Pages /\ K \subseteq Pages
        /\ None \notin Processes /\ None # Kernel
      BY MemoryAssumption DEF Good, OwnersOK
  <2>2. /\ Q \in [Pages -> Processes \cup {Kernel, None}]
        /\ page \notin A => Q[page] = None
        /\ \A g \in Pages : g # page => Q[g] = O[g]
      BY <1>1, <2>1
  <2> SUFFICES ASSUME NEW g \in Pages \ A
               PROVE  /\ Q[g] = None => \A z \in Places : ~Maps(U, z, g)
                      /\ Q[g] \in Processes =>
                            /\ Q[g] \in P
                            /\ g \in K \/ \E z \in Places : z[1] = Q[g] /\ Maps(U, z, g) /\ ~Borrowed(N, z)
                      /\ Q[g] = Kernel => g \in K
                      /\ \A z \in Places : Maps(U, z, g) /\ ~Borrowed(N, z) /\ z \notin L => Q[g] = z[1]
      BY <2>1, <2>2 DEF OwnersOK
  <2>3. CASE g = page
      BY <1>1, <1>2, <2>1, <2>2, <2>3
  <2>4. CASE g # page
      BY <1>1, <1>2, <2>2, <2>4 DEF Good, OwnersOK
  <2> QED BY <2>3, <2>4
<1>7. PICK depth \in Depths : ChainOK(T, N, L, A, depth)
    BY DEF Good
<1>8. ChainOK(U, N, L, A, depth)
  <2>1. \A z \in Places : \A g : Maps(U, z, g) => z # x /\ Maps(T, z, g)
      BY <1>1, <1>2
  <2> QED BY <1>2, <1>7, <2>1 DEF ChainOK
<1> QED BY <1>3, <1>4, <1>5, <1>6, <1>8 DEF Good

\* Pages other than this one keep their owner.
OwnerSet(Q, O, page, owner) ==
    /\ Q \in [Pages -> Processes \cup {Kernel, None}]
    /\ Q[page] = owner /\ \A g \in Pages : g # page => Q[g] = O[g]

\* send_memory: the page goes to another place and another owner.  If the message finds no
\* place in the queue, it is left over there.
LEMMA Moved ==
    ASSUME NEW P, NEW O, NEW T, NEW N, NEW S, NEW L, NEW A, NEW K, Good(P, O, T, N, S, L, A, K),
           NEW U \in [Processes -> [Virts -> Entry]], NEW x \in Places, NEW page \in Pages,
           EntryAt(T, x).state = "valid", EntryAt(T, x).phys = page, ~Borrowed(N, x), x \notin L,
           EntryAt(U, x).state = "none",
           NEW y \in Places, y # x, y[1] \in P, EntryAt(T, y).state = "none",
           EntryAt(U, y).state = "valid", EntryAt(U, y).phys = page,
           \A z \in Places : z # x /\ z # y => EntryAt(U, z) = EntryAt(T, z),
           NEW L1, L1 = L \/ L1 = L \cup {y},
           NEW Q, OwnerSet(Q, O, page, y[1])
    PROVE  Good(P, Q, U, N, S, L1, A, K)
<1>0. N \subseteq Lending /\ S \subseteq Places /\ L \subseteq Places /\ L1 \subseteq Places
      /\ \A m \in N : Home(m) \in Places /\ Away(m) \in Places
    BY MessagePlaces DEF Good, LendsOK, RestOK
<1>1. /\ x[1] \in P /\ x \notin S /\ (\A m \in N : Home(m) # x /\ Away(m) # x)
      /\ ~Used(U, x) /\ Used(T, x) /\ EntryAt(T, x).state # "lent"
      /\ (\A g : ~Maps(U, x, g)) /\ (\A g : Maps(T, x, g) <=> g = page)
      /\ page \notin A => O[page] = x[1] /\ \A z \in Places : Maps(T, z, page) => z = x
    BY Handed
<1>2. \A z \in Places : z # x /\ z # y => /\ Used(U, z) <=> Used(T, z)
                                          /\ EntryAt(U, z) = EntryAt(T, z)
                                          /\ \A g : Maps(U, z, g) <=> Maps(T, z, g)
    BY DEF Used, Maps
<1>3. /\ Used(U, y) /\ ~Used(T, y) /\ y \notin S /\ y \notin L
      /\ \A g : ~Maps(T, y, g) /\ (Maps(U, y, g) <=> g = page)
      /\ ~Borrowed(N, y) /\ \A m \in N : Home(m) # y /\ Away(m) # y
  <2>1. Used(U, y) /\ ~Used(T, y)
      BY DEF Used
  <2>2. \A m \in N : Away(m) # y
      BY <2>1 DEF Good, LendsOK
  <2>3. ASSUME NEW m \in N, Home(m) = y PROVE FALSE
    <3>1. m.client \in P
        BY <1>0, <2>3, MessagePlaces
    <3> QED BY <2>3, <3>1 DEF Good, LendsOK
  <2> QED BY <2>1, <2>2, <2>3 DEF Good, RestOK, Borrowed, Maps
<1>4. EntriesOK(P, U)
    BY <1>1, <1>2 DEF Good, EntriesOK
<1>5. LendsOK(P, U, N, S, L1)
    BY <1>0, <1>1, <1>2, <1>3 DEF Good, LendsOK
<1>6. RestOK(P, U, N, S, L1)
    BY <1>0, <1>1, <1>2, <1>3 DEF Good, RestOK
<1>7. OwnersOK(P, Q, U, N, L1, A, K)
  <2>1. O \in [Pages -> Processes \cup {Kernel, None}] /\ A \subseteq Pages /\ K \subseteq Pages
        /\ None \notin Processes /\ Kernel \notin Processes /\ y[1] \in Processes
      BY MemoryAssumption DEF Good, OwnersOK, EntriesOK
  <2>2. /\ Q \in [Pages -> Processes \cup {Kernel, None}]
        /\ Q[page] = y[1] /\ \A g \in Pages : g # page => Q[g] = O[g]
      BY DEF OwnerSet
  <2> SUFFICES ASSUME NEW g \in Pages \ A
               PROVE  /\ Q[g] = None => \A z \in Places : ~Maps(U, z, g)
                      /\ Q[g] \in Processes =>
                            /\ Q[g] \in P
                            /\ g \in K \/ \E z \in Places : z[1] = Q[g] /\ Maps(U, z, g) /\ ~Borrowed(N, z)
                      /\ Q[g] = Kernel => g \in K
                      /\ \A z \in Places : Maps(U, z, g) /\ ~Borrowed(N, z) /\ z \notin L1 => Q[g] = z[1]
      BY <2>1, <2>2 DEF OwnersOK
  <2>3. CASE g = page
    <3>1. \A z \in Places : Maps(U, z, g) => z = y
        BY <1>1, <1>2, <2>3
    <3> QED BY <1>3, <2>1, <2>2, <2>3, <3>1
  <2>4. CASE g # page
    <3>1. \A z \in Places : Maps(U, z, g) <=> Maps(T, z, g)
        BY <1>1, <1>2, <1>3, <2>4
    <3>2. \A z \in Places : Maps(U, z, g) => z # y
        BY <1>3, <2>4
    <3> QED BY <2>2, <2>4, <3>1, <3>2 DEF Good, OwnersOK
  <2> QED BY <2>3, <2>4
<1>8. PICK depth \in Depths : ChainOK(T, N, L, A, depth)
    BY DEF Good
<1>9. ChainOK(U, N, L1, A, depth)
  <2> SUFFICES ASSUME NEW g \in Pages \ A, NEW z \in Places, Maps(U, z, g)
               PROVE  /\ \A w \in Places :
                            /\ Maps(U, w, g) /\ w # z
                            /\ (~Borrowed(N, z) /\ z \notin L1) \/ EntryAt(U, w).state = "valid"
                            => depth[z] < depth[w]
                      /\ \A m \in N : Home(m) = z =>
                            \A w \in Places : Maps(U, w, g) /\ w # z /\ w # Away(m) =>
                                depth[w] < depth[z] \/ depth[Away(m)] < depth[w]
      BY DEF ChainOK
  <2>1. CASE g = page
    <3>1. \A w \in Places : Maps(U, w, g) => w = y
        BY <1>1, <1>2, <2>1
    <3> QED BY <3>1
  <2>2. CASE g # page
    <3>1. \A w \in Places : Maps(U, w, g) => Maps(T, w, g) /\ w # y /\ w # x /\ EntryAt(U, w) = EntryAt(T, w)
        BY <1>1, <1>2, <1>3, <2>2
    <3> QED BY <1>8, <3>1 DEF ChainOK
  <2> QED BY <2>1, <2>2
<1> QED BY <1>4, <1>5, <1>6, <1>7, <1>9 DEF Good

\* lend_memory: the page stays where it is, no longer usable, and appears at another place.
\* The message is queued, or the lender is stranded and the other place left over.
LEMMA Lent ==
    ASSUME NEW P, NEW O, NEW T, NEW N, NEW S, NEW L, NEW A, NEW K, Good(P, O, T, N, S, L, A, K),
           NEW U \in [Processes -> [Virts -> Entry]], NEW x \in Places, NEW page \in Pages,
           EntryAt(T, x).state = "valid", EntryAt(T, x).phys = page,
           EntryAt(U, x).state = "lent", EntryAt(U, x).phys = page,
           EntryAt(U, x).writable = EntryAt(T, x).writable,
           NEW y \in Places, y # x, y[1] \in P, EntryAt(T, y).state = "none",
           EntryAt(U, y).state = "valid", EntryAt(U, y).phys = page,
           \A z \in Places : z # x /\ z # y => EntryAt(U, z) = EntryAt(T, z),
           NEW N1, NEW S1, NEW L1,
           \/ /\ \E m \in Lending :
                    /\ N1 = N \cup {m} /\ Home(m) = x /\ Away(m) = y
                    /\ EntryAt(U, y).writable => m.kind = "MutableBorrow" /\ EntryAt(U, x).writable
              /\ S1 = S /\ L1 = L
           \/ N1 = N /\ S1 = S \cup {x} /\ L1 = L \cup {y}
    PROVE  Good(P, O, U, N1, S1, L1, A, K)
<1>0. N \subseteq Lending /\ S \subseteq Places /\ L \subseteq Places
      /\ \A m \in N : Home(m) \in Places /\ Away(m) \in Places
    BY MessagePlaces DEF Good, LendsOK, RestOK
<1>1. /\ x[1] \in P /\ Used(T, x) /\ Used(U, x) /\ x \notin S
      /\ (\A g : Maps(T, x, g) <=> g = page) /\ (\A g : Maps(U, x, g) <=> g = page)
      /\ \A m \in N : Home(m) # x
  <2>1. Used(T, x) /\ Used(U, x) /\ x \notin S
      BY DEF Used, Good, RestOK
  <2>2. x[1] \in P
      BY <2>1, UsedLives DEF Good
  <2>3. ASSUME NEW m \in N, Home(m) = x PROVE FALSE
    <3>1. m.client \in P
        BY <1>0, <2>2, <2>3, MessagePlaces
    <3> QED BY <2>3, <3>1 DEF Good, LendsOK
  <2> QED BY <2>1, <2>2, <2>3 DEF Maps
<1>2. \A z \in Places : z # x /\ z # y => /\ Used(U, z) <=> Used(T, z)
                                          /\ EntryAt(U, z) = EntryAt(T, z)
                                          /\ \A g : Maps(U, z, g) <=> Maps(T, z, g)
    BY DEF Used, Maps
<1>3. /\ Used(U, y) /\ ~Used(T, y) /\ y \notin S /\ y \notin L
      /\ \A g : ~Maps(T, y, g) /\ (Maps(U, y, g) <=> g = page)
      /\ ~Borrowed(N, y) /\ \A m \in N : Home(m) # y /\ Away(m) # y
  <2>1. Used(U, y) /\ ~Used(T, y)
      BY DEF Used
  <2>2. \A m \in N : Away(m) # y
      BY <2>1 DEF Good, LendsOK
  <2>3. ASSUME NEW m \in N, Home(m) = y PROVE FALSE
    <3>1. m.client \in P
        BY <1>0, <2>3, MessagePlaces
    <3> QED BY <2>3, <3>1 DEF Good, LendsOK
  <2> QED BY <2>1, <2>2, <2>3 DEF Good, RestOK, Borrowed, Maps
<1>4. EntriesOK(P, U)
    BY <1>1, <1>2 DEF Good, EntriesOK
<1>5. \A z \in Places : \A g : Maps(U, z, g) <=> Maps(T, z, g) \/ (z = y /\ g = page)
    BY <1>1, <1>2, <1>3
<1>6. ASSUME NEW m \in N
      PROVE  /\ m.server \in P /\ Used(U, Away(m)) /\ Away(m) \notin L1
             /\ m.client \in P =>
                   /\ EntryAt(U, Home(m)).state = "lent" /\ Home(m) \notin S1
                   /\ EntryAt(U, Away(m)).phys = EntryAt(U, Home(m)).phys
                   /\ EntryAt(U, Away(m)).writable =>
                         m.kind = "MutableBorrow" /\ EntryAt(U, Home(m)).writable
  <2>1. /\ m.server \in P /\ Used(T, Away(m)) /\ Away(m) \notin L
        /\ m.client \in P =>
              /\ EntryAt(T, Home(m)).state = "lent" /\ Home(m) \notin S
              /\ EntryAt(T, Away(m)).phys = EntryAt(T, Home(m)).phys
              /\ EntryAt(T, Away(m)).writable =>
                    m.kind = "MutableBorrow" /\ EntryAt(T, Home(m)).writable
      BY Zenon DEF Good, LendsOK
  <2>2. Home(m) # x /\ Home(m) # y /\ Away(m) # y /\ Home(m) \in Places /\ Away(m) \in Places
      BY <1>0, <1>1, <1>3
  <2>3. EntryAt(U, Home(m)) = EntryAt(T, Home(m))
      BY <1>2, <2>2
  <2>4. EntryAt(U, Away(m)).phys = EntryAt(T, Away(m)).phys /\ EntryAt(U, Away(m)).writable = EntryAt(T, Away(m)).writable
      BY <1>2, <2>2
  <2>5. Used(U, Away(m)) /\ Away(m) \notin L1 /\ (m.client \in P => Home(m) \notin S1)
      BY <1>1, <1>2, <2>1, <2>2
  <2> QED BY <2>1, <2>3, <2>4, <2>5, Zenon
<1>7. LendsOK(P, U, N1, S1, L1)
  <2>1. CASE N1 = N
    <3>1. \A m, n \in N : Away(m) = Away(n) \/ (Home(m) = Home(n) /\ m.client \in P) => m = n
        BY DEF Good, LendsOK
    <3> QED BY <1>0, <1>6, <2>1, <3>1, Zenon DEF LendsOK
  <2>2. ASSUME NEW m \in Lending, N1 = N \cup {m}, Home(m) = x, Away(m) = y, S1 = S, L1 = L,
               EntryAt(U, y).writable => m.kind = "MutableBorrow" /\ EntryAt(U, x).writable
        PROVE  LendsOK(P, U, N1, S1, L1)
    <3>1. m.server \in P /\ Used(U, Away(m)) /\ Away(m) \notin L1
          /\ EntryAt(U, Home(m)).state = "lent" /\ Home(m) \notin S1
          /\ EntryAt(U, Away(m)).phys = EntryAt(U, Home(m)).phys
        BY <1>1, <1>3, <2>2, MessagePlaces
    <3>2. \A k, n \in N1 : Away(k) = Away(n) \/ (Home(k) = Home(n) /\ k.client \in P) => k = n
        BY <1>1, <1>3, <2>2 DEF Good, LendsOK
    <3>3. N1 \subseteq Lending
        BY <1>0, <2>2
    <3>4. EntryAt(U, Away(m)).writable => m.kind = "MutableBorrow" /\ EntryAt(U, Home(m)).writable
        BY <2>2, Zenon
    <3>5. \A k \in N1 : k \in N \/ k = m
        BY <2>2
    <3> QED BY <1>6, <3>1, <3>2, <3>3, <3>4, <3>5, Zenon DEF LendsOK
  <2> QED BY <2>1, <2>2
<1>8. RestOK(P, U, N1, S1, L1)
    BY <1>0, <1>1, <1>2, <1>3 DEF Good, RestOK
<1>9. /\ \A z \in Places : z # y => (Borrowed(N1, z) <=> Borrowed(N, z)) /\ (z \in L1 <=> z \in L)
      /\ Borrowed(N1, y) \/ y \in L1
    BY <1>3 DEF Borrowed
<1>10. OwnersOK(P, O, U, N1, L1, A, K)
  <2>1. page \notin A => O[page] # None
      BY <1>1 DEF Good, OwnersOK
  <2> QED BY <1>3, <1>5, <1>9, <2>1 DEF Good, OwnersOK
<1>11. PICK d \in Depths : ChainOK(T, N, L, A, d)
    BY DEF Good
<1> DEFINE e == [d EXCEPT ![y] = d[x] + 1]
<1>12. e \in Depths /\ e[y] = d[x] + 1 /\ (\A z \in Places : z # y => e[z] = d[z])
       /\ \A z \in Places : d[z] \in Nat
    BY <1>11 DEF Depths
<1> HIDE DEF e
<1>13. ChainOK(U, N1, L1, A, e)
  <2> SUFFICES ASSUME NEW g \in Pages \ A, NEW z \in Places, Maps(U, z, g)
               PROVE  /\ \A w \in Places :
                            /\ Maps(U, w, g) /\ w # z
                            /\ (~Borrowed(N1, z) /\ z \notin L1) \/ EntryAt(U, w).state = "valid"
                            => e[z] < e[w]
                      /\ \A m \in N1 : Home(m) = z =>
                            \A w \in Places : Maps(U, w, g) /\ w # z /\ w # Away(m) =>
                                e[w] < e[z] \/ e[Away(m)] < e[w]
      BY DEF ChainOK
  <2>1. CASE g # page
    <3>1. \A w \in Places : Maps(U, w, g) => Maps(T, w, g) /\ w # x /\ w # y /\ EntryAt(U, w) = EntryAt(T, w)
        BY <1>1, <1>2, <1>3, <1>5, <2>1
    <3>2. \A m \in N1 : Home(m) = z => m \in N /\ Away(m) # y /\ Away(m) \in Places
        BY <1>0, <1>3, <2>1, <3>1
    <3> QED BY <1>9, <1>11, <1>12, <3>1, <3>2 DEF ChainOK
  <2>2. CASE g = page
    <3>1. \A w \in Places : Maps(U, w, g) /\ w # y => Maps(T, w, g) /\ (w # x => d[w] < d[x])
        BY <1>1, <1>5, <1>11, <2>2 DEF ChainOK
    <3>2. \A w \in Places : Maps(U, w, g) /\ w # y => e[w] < e[y]
        BY <1>12, <3>1
    <3>3. \A w \in Places : Maps(U, w, g) /\ w # y => EntryAt(U, w).state # "valid"
      <4> SUFFICES ASSUME NEW w \in Places, Maps(U, w, g), w # y, EntryAt(U, w).state = "valid" PROVE FALSE
          OBVIOUS
      <4>1. w # x /\ Maps(T, w, g) /\ EntryAt(T, w).state = "valid"
          BY <1>2, <3>1
      <4> QED BY <1>1, <1>11, <2>2, <4>1, OneValid
    <3>4. \A w \in Places :
              /\ Maps(U, w, g) /\ w # z
              /\ (~Borrowed(N1, z) /\ z \notin L1) \/ EntryAt(U, w).state = "valid"
              => e[z] < e[w]
        BY <1>9, <1>11, <1>12, <3>1, <3>2, <3>3 DEF ChainOK
    <3>5. ASSUME NEW m \in N1, Home(m) = z, NEW w \in Places, Maps(U, w, g), w # z, w # Away(m)
          PROVE  e[w] < e[z] \/ e[Away(m)] < e[w]
      <4>1. CASE m \in N
        <5>1. z # y /\ z # x /\ Away(m) # y /\ Away(m) \in Places /\ Maps(T, z, g)
            BY <1>0, <1>1, <1>3, <3>1, <3>5, <4>1
        <5>2. Maps(T, Away(m), g)
          <6>1. m.client \in P
              BY <1>0, <3>5, <4>1, <5>1, MessagePlaces, UsedLives DEF Good, Maps
          <6> QED BY <3>5, <4>1, <5>1, <6>1 DEF Good, LendsOK, Maps
        <5>3. CASE w = y
            BY <1>5, <3>2, <5>1, <5>2, <5>3
        <5>4. CASE w # y
          <6>1. Maps(T, w, g)
              BY <3>1, <3>5, <5>4
          <6>2. d[w] < d[z] \/ d[Away(m)] < d[w]
              BY <1>11, <3>5, <4>1, <5>1, <6>1 DEF ChainOK
          <6> QED BY <1>12, <5>1, <5>4, <6>2
        <5> QED BY <5>3, <5>4
      <4>2. CASE m \notin N
        <5>1. z = x /\ Away(m) = y
            BY <3>5, <4>2
        <5> QED BY <1>12, <3>1, <3>5, <5>1
      <4> QED BY <4>1, <4>2
    <3> QED BY <3>4, <3>5
  <2> QED BY <2>1, <2>2
<1> QED BY <1>4, <1>7, <1>8, <1>10, <1>12, <1>13 DEF Good

\* return_page_inner: the page leaves the place it was lent to and can be used where it was
\* lent from.
LEMMA Returned ==
    ASSUME NEW P, NEW O, NEW T, NEW N, NEW S, NEW L, NEW A, NEW K, Good(P, O, T, N, S, L, A, K),
           NEW U \in [Processes -> [Virts -> Entry]], NEW m \in N, m.client \in P,
           NEW x, x = Home(m), NEW y, y = Away(m),
           EntryAt(T, y).state = "valid", EntryAt(U, y).state = "none",
           EntryAt(U, x).state = "valid", EntryAt(U, x).phys = EntryAt(T, x).phys,
           EntryAt(U, x).writable = EntryAt(T, x).writable,
           \A z \in Places : z # x /\ z # y => EntryAt(U, z) = EntryAt(T, z)
    PROVE  Good(P, O, U, N \ {m}, S, L, A, K)
<1> DEFINE N1 == N \ {m}
<1>0. N \subseteq Lending /\ S \subseteq Places /\ L \subseteq Places
      /\ \A n \in N : Home(n) \in Places /\ Away(n) \in Places
    BY MessagePlaces DEF Good, LendsOK, RestOK
<1>1. /\ x \in Places /\ y \in Places /\ x # y /\ y[1] \in P /\ x[1] \in P
      /\ EntryAt(T, x).state = "lent" /\ x \notin S /\ y \notin S /\ y \notin L
      /\ EntryAt(T, y).phys = EntryAt(T, x).phys
  <2>1. x \in Places /\ y \in Places /\ x # y /\ x[1] = m.client /\ y[1] = m.server
      BY <1>0, MessagePlaces
  <2> QED BY <2>1 DEF Good, LendsOK, RestOK
<1>2. PICK page : page = EntryAt(T, x).phys
    OBVIOUS
<1>3. /\ Used(T, x) /\ Used(T, y) /\ Used(U, x) /\ ~Used(U, y) /\ page \in Pages
      /\ \A g : /\ (Maps(T, x, g) <=> g = page) /\ (Maps(T, y, g) <=> g = page)
                /\ (Maps(U, x, g) <=> g = page) /\ ~Maps(U, y, g)
  <2>1. Used(T, x) /\ Used(T, y) /\ Used(U, x) /\ ~Used(U, y)
      BY <1>1 DEF Used
  <2> QED BY <1>1, <1>2, <2>1, UsedLives DEF Maps, Good
<1>4. \A z \in Places : z # x /\ z # y => /\ Used(U, z) <=> Used(T, z)
                                          /\ EntryAt(U, z) = EntryAt(T, z)
                                          /\ \A g : Maps(U, z, g) <=> Maps(T, z, g)
    BY DEF Used, Maps
<1>5. \A z \in Places : \A g : Maps(U, z, g) <=> Maps(T, z, g) /\ z # y
    BY <1>3, <1>4
<1>6. \A n \in N1 : n \in N /\ Away(n) # y /\ Home(n) # x /\ Home(n) # y
  <2> SUFFICES ASSUME NEW n \in N, n # m PROVE Away(n) # y /\ Home(n) # x /\ Home(n) # y
      OBVIOUS
  <2>1. Away(n) # y /\ Home(n) # x
      BY DEF Good, LendsOK
  <2>2. ASSUME Home(n) = y PROVE FALSE
    <3>1. n.client \in P
        BY <1>0, <1>1, <2>2, MessagePlaces
    <3> QED BY <2>2, <3>1 DEF Good, LendsOK
  <2> QED BY <2>1, <2>2
<1>7. /\ \A z \in Places : z # y => (Borrowed(N1, z) <=> Borrowed(N, z))
      /\ Borrowed(N, y)
    BY DEF Borrowed
<1>8. EntriesOK(P, U)
    BY <1>1, <1>3, <1>4 DEF Good, EntriesOK
<1>9. ASSUME NEW n \in N1
      PROVE  /\ n.server \in P /\ Used(U, Away(n)) /\ Away(n) \notin L
             /\ n.client \in P =>
                   /\ EntryAt(U, Home(n)).state = "lent" /\ Home(n) \notin S
                   /\ EntryAt(U, Away(n)).phys = EntryAt(U, Home(n)).phys
                   /\ EntryAt(U, Away(n)).writable =>
                         n.kind = "MutableBorrow" /\ EntryAt(U, Home(n)).writable
  <2>1. /\ n.server \in P /\ Used(T, Away(n)) /\ Away(n) \notin L
        /\ n.client \in P =>
              /\ EntryAt(T, Home(n)).state = "lent" /\ Home(n) \notin S
              /\ EntryAt(T, Away(n)).phys = EntryAt(T, Home(n)).phys
              /\ EntryAt(T, Away(n)).writable =>
                    n.kind = "MutableBorrow" /\ EntryAt(T, Home(n)).writable
      BY <1>6, Zenon DEF Good, LendsOK
  <2>2. Home(n) # x /\ Home(n) # y /\ Away(n) # y /\ Home(n) \in Places /\ Away(n) \in Places
      BY <1>0, <1>6
  <2>3. EntryAt(U, Home(n)) = EntryAt(T, Home(n))
      BY <1>4, <2>2
  <2>4. EntryAt(U, Away(n)).phys = EntryAt(T, Away(n)).phys /\ EntryAt(U, Away(n)).writable = EntryAt(T, Away(n)).writable
      BY <1>4, <2>2
  <2>5. Used(U, Away(n))
      BY <1>3, <1>4, <2>1, <2>2
  <2> QED BY <2>1, <2>3, <2>4, <2>5, Zenon
<1>10. LendsOK(P, U, N1, S, L)
  <2>1. \A k, n \in N1 : Away(k) = Away(n) \/ (Home(k) = Home(n) /\ k.client \in P) => k = n
      BY DEF Good, LendsOK
  <2>2. N1 \subseteq Lending
      BY <1>0
  <2> QED BY <1>9, <2>1, <2>2, Zenon DEF LendsOK
<1>11. RestOK(P, U, N1, S, L)
    BY <1>0, <1>1, <1>3, <1>4 DEF Good, RestOK
<1>12. OwnersOK(P, O, U, N1, L, A, K)
  <2>1. \A z \in Places : \A g : /\ Maps(T, z, g) /\ ~Borrowed(N, z) => Maps(U, z, g) /\ ~Borrowed(N1, z)
                                 /\ Maps(U, z, g) => Maps(T, z, g)
                                 /\ Maps(U, z, g) /\ ~Borrowed(N1, z) => ~Borrowed(N, z)
      BY <1>5, <1>7
  <2> HIDE DEF N1
  <2> QED BY <2>1 DEF Good, OwnersOK
<1>13. PICK d \in Depths : ChainOK(T, N, L, A, d)
    BY DEF Good
<1>14. ChainOK(U, N1, L, A, d)
  <2> SUFFICES ASSUME NEW g \in Pages \ A, NEW z \in Places, Maps(U, z, g)
               PROVE  /\ \A w \in Places :
                            /\ Maps(U, w, g) /\ w # z
                            /\ (~Borrowed(N1, z) /\ z \notin L) \/ EntryAt(U, w).state = "valid"
                            => d[z] < d[w]
                      /\ \A n \in N1 : Home(n) = z =>
                            \A w \in Places : Maps(U, w, g) /\ w # z /\ w # Away(n) =>
                                d[w] < d[z] \/ d[Away(n)] < d[w]
      BY DEF ChainOK
  <2>1. Maps(T, z, g) /\ z # y
      BY <1>5
  <2>2. ASSUME NEW n \in N1, Home(n) = z, NEW w \in Places, Maps(U, w, g), w # z, w # Away(n)
        PROVE  d[w] < d[z] \/ d[Away(n)] < d[w]
    <3>1. Maps(T, w, g) /\ n \in N
        BY <1>5, <2>2
    <3> QED BY <1>13, <2>1, <2>2, <3>1 DEF ChainOK
  <2>3. ASSUME NEW w \in Places, Maps(U, w, g), w # z, ~Borrowed(N1, z), z \notin L
        PROVE  d[z] < d[w]
    <3>1. Maps(T, w, g) /\ ~Borrowed(N, z)
        BY <1>5, <1>7, <2>1, <2>3
    <3> QED BY <1>13, <2>1, <2>3, <3>1 DEF ChainOK
  <2>4. ASSUME NEW w \in Places, Maps(U, w, g), w # z, EntryAt(U, w).state = "valid"
        PROVE  d[z] < d[w]
    <3>1. Maps(T, w, g) /\ w # y
        BY <1>5, <2>4
    <3>2. CASE w # x
        BY <1>4, <1>13, <2>1, <2>4, <3>1, <3>2 DEF ChainOK
    <3>3. CASE w = x
      <4>1. g = page /\ Maps(T, y, g)
          BY <1>3, <3>1, <3>3
      <4>2. d[z] < d[x] \/ d[y] < d[z]
          BY <1>13, <2>1, <2>4, <3>1, <3>3 DEF ChainOK
      <4>3. d[z] < d[y]
          BY <1>1, <1>13, <2>1, <4>1 DEF ChainOK
      <4>4. d[z] \in Nat /\ d[y] \in Nat /\ d[x] \in Nat
          BY <1>1 DEF Depths
      <4> QED BY <3>3, <4>2, <4>3, <4>4
    <3> QED BY <3>2, <3>3
  <2> QED BY <2>2, <2>3, <2>4
<1> QED BY <1>8, <1>10, <1>11, <1>12, <1>13, <1>14 DEF Good

\* ReturnMemory that fails once the entry in the queue has been emptied: the page stays where
\* it is, and where it was lent from is stranded, if that still exists.
LEMMA Dropped ==
    ASSUME NEW P, NEW O, NEW T, NEW N, NEW S, NEW L, NEW A, NEW K, Good(P, O, T, N, S, L, A, K),
           NEW m \in N, NEW S1, S1 = S \cup ({Home(m)} \cap (P \X Virts)),
           NEW L1, L1 = L \cup {Away(m)}
    PROVE  Good(P, O, T, N \ {m}, S1, L1, A, K)
<1> DEFINE N1 == N \ {m}
<1>0. N \subseteq Lending /\ S \subseteq Places /\ L \subseteq Places
      /\ \A n \in N : Home(n) \in Places /\ Away(n) \in Places /\ Home(n)[1] = n.client
    BY MessagePlaces DEF Good, LendsOK, RestOK
<1>1. \A n \in N1 : Away(n) # Away(m) /\ (n.client \in P => Home(n) # Home(m))
    BY DEF Good, LendsOK
<1>2. EntriesOK(P, T) /\ P \subseteq Processes
    BY DEF Good, EntriesOK
<1>3. LendsOK(P, T, N1, S1, L1)
    BY <1>0, <1>1 DEF Good, LendsOK
<1>4. RestOK(P, T, N1, S1, L1)
  <2>1. S1 \subseteq Places /\ L1 \subseteq Places
      BY <1>0, <1>2 DEF Places
  <2>2. \A x \in S1 : x[1] \in P /\ EntryAt(T, x).state = "lent"
    <3>1. Home(m) \in P \X Virts => m.client \in P /\ EntryAt(T, Home(m)).state = "lent"
        BY <1>0 DEF Good, LendsOK
    <3> QED BY <1>0, <3>1 DEF Good, RestOK
  <2>3. \A x \in L1 : Used(T, x)
      BY DEF Good, RestOK, LendsOK
  <2>4. ASSUME NEW x \in Places, EntryAt(T, x).state = "lent", x \notin S1
        PROVE  \E n \in N1 : Home(n) = x
    <3>1. PICK n \in N : Home(n) = x
        BY <2>4 DEF Good, RestOK
    <3>2. x \in P \X Virts
      <4>1. Used(T, x)
          BY <2>4 DEF Used
      <4> QED BY <1>2, <4>1, UsedLives DEF Places
    <3>3. n # m
        BY <2>4, <3>1, <3>2
    <3> QED BY <3>1, <3>3
  <2> QED BY <2>1, <2>2, <2>3, <2>4 DEF RestOK
<1>5. /\ \A z \in Places : z \notin L1 => (Borrowed(N1, z) <=> Borrowed(N, z)) /\ z \notin L
      /\ \A z \in Places : ~Borrowed(N, z) => ~Borrowed(N1, z)
      /\ N1 \subseteq N
    BY DEF Borrowed
<1> HIDE DEF N1
<1>6. OwnersOK(P, O, T, N1, L1, A, K)
    BY <1>5 DEF Good, OwnersOK
<1>7. PICK d \in Depths : ChainOK(T, N, L, A, d)
    BY DEF Good
<1>8. ChainOK(T, N1, L1, A, d)
    BY <1>5, <1>7 DEF ChainOK
<1> QED BY <1>2, <1>3, <1>4, <1>6, <1>8 DEF Good, N1

\* UnmapMemory of a stranded entry: the page stays claimed, and is leaked.
LEMMA Unstranded ==
    ASSUME NEW P, NEW O, NEW T, NEW N, NEW S, NEW L, NEW A, NEW K, Good(P, O, T, N, S, L, A, K),
           NEW U \in [Processes -> [Virts -> Entry]], NEW x \in Places, x \in S, x \notin L,
           ~Borrowed(N, x), EntryAt(U, x).state = "none",
           \A z \in Places : z # x => EntryAt(U, z) = EntryAt(T, z)
    PROVE  Good(P, O, U, N, S \ {x}, L, A, K \cup {EntryAt(T, x).phys})
<1> DEFINE K1 == K \cup {EntryAt(T, x).phys}
<1>0. N \subseteq Lending /\ S \subseteq Places /\ L \subseteq Places /\ K \subseteq Pages
      /\ \A n \in N : Home(n) \in Places /\ Away(n) \in Places
    BY MessagePlaces DEF Good, LendsOK, RestOK, OwnersOK
<1>1. /\ x[1] \in P /\ EntryAt(T, x).phys \in Pages /\ EntryAt(T, x).state = "lent"
      /\ ~Used(U, x) /\ Used(T, x) /\ \A n \in N : Home(n) # x /\ Away(n) # x
  <2>1. x[1] \in P /\ EntryAt(T, x).state = "lent"
      BY DEF Good, RestOK
  <2>2. ~Used(U, x) /\ Used(T, x)
      BY <2>1 DEF Used
  <2>3. \A n \in N : Away(n) # x
      BY DEF Borrowed
  <2>4. ASSUME NEW n \in N, Home(n) = x PROVE FALSE
    <3>1. n.client \in P
        BY <1>0, <2>1, <2>4, MessagePlaces
    <3> QED BY <2>4, <3>1 DEF Good, LendsOK
  <2> QED BY <2>1, <2>2, <2>3, <2>4, UsedLives DEF Good
<1>2. \A z \in Places : z # x => /\ Used(U, z) <=> Used(T, z)
                                 /\ EntryAt(U, z) = EntryAt(T, z)
                                 /\ \A g : Maps(U, z, g) <=> Maps(T, z, g)
    BY DEF Used, Maps
<1>3. \A z \in Places : \A g :
          /\ Maps(U, z, g) => Maps(T, z, g) /\ EntryAt(U, z) = EntryAt(T, z)
          /\ g \notin K1 => (Maps(U, z, g) <=> Maps(T, z, g))
    BY <1>1, <1>2 DEF Maps
<1>4. EntriesOK(P, U)
    BY <1>1, <1>2 DEF Good, EntriesOK
<1>5. LendsOK(P, U, N, S \ {x}, L)
    BY <1>0, <1>1, <1>2 DEF Good, LendsOK
<1>6. RestOK(P, U, N, S \ {x}, L)
    BY <1>0, <1>1, <1>2 DEF Good, RestOK
<1>7. K1 \subseteq Pages /\ K \subseteq K1
    BY <1>0, <1>1
<1> HIDE DEF K1
<1>8. OwnersOK(P, O, U, N, L, A, K1)
  <2> SUFFICES ASSUME NEW g \in Pages \ A
               PROVE  /\ O[g] = None => \A z \in Places : ~Maps(U, z, g)
                      /\ O[g] \in Processes =>
                            /\ O[g] \in P
                            /\ g \in K1 \/ \E z \in Places : z[1] = O[g] /\ Maps(U, z, g) /\ ~Borrowed(N, z)
                      /\ O[g] = Kernel => g \in K1
                      /\ \A z \in Places : Maps(U, z, g) /\ ~Borrowed(N, z) /\ z \notin L => O[g] = z[1]
      BY <1>7 DEF Good, OwnersOK
  <2> QED BY <1>3, <1>7 DEF Good, OwnersOK
<1>9. PICK d \in Depths : ChainOK(T, N, L, A, d)
    BY DEF Good
<1>10. ChainOK(U, N, L, A, d)
    BY <1>3, <1>9 DEF ChainOK
<1> QED BY <1>4, <1>5, <1>6, <1>8, <1>10 DEF Good, K1

\* ReceiveMessage: the message is held and no longer queued.
LEMMA Received ==
    ASSUME NEW P, NEW O, NEW T, NEW N, NEW S, NEW L, NEW A, NEW K, Good(P, O, T, N, S, L, A, K),
           NEW m \in N, NEW k \in Lending, k.client = m.client, k.server = m.server,
           k.kind = m.kind, Home(k) = Home(m), Away(k) = Away(m)
    PROVE  Good(P, O, T, (N \ {m}) \cup {k}, S, L, A, K)
<1> DEFINE N1 == (N \ {m}) \cup {k}
<1>1. \A n \in N1 : \E i \in N : /\ n.client = i.client /\ n.server = i.server /\ n.kind = i.kind
                                 /\ Home(n) = Home(i) /\ Away(n) = Away(i)
    OBVIOUS
<1>2. \A i \in N : \E n \in N1 : Home(n) = Home(i) /\ Away(n) = Away(i)
    OBVIOUS
<1>3. LendsOK(P, T, N1, S, L)
  <2>1. N1 \subseteq Lending
      BY DEF Good, LendsOK
  <2>2. \A i, n \in N1 : Away(i) = Away(n) \/ (Home(i) = Home(n) /\ i.client \in P) => i = n
      BY DEF Good, LendsOK
  <2>3. ASSUME NEW n \in N1
        PROVE  /\ n.server \in P /\ Used(T, Away(n)) /\ Away(n) \notin L
               /\ n.client \in P =>
                     /\ EntryAt(T, Home(n)).state = "lent" /\ Home(n) \notin S
                     /\ EntryAt(T, Away(n)).phys = EntryAt(T, Home(n)).phys
                     /\ EntryAt(T, Away(n)).writable =>
                           n.kind = "MutableBorrow" /\ EntryAt(T, Home(n)).writable
    <3>1. PICK i \in N : /\ n.client = i.client /\ n.server = i.server /\ n.kind = i.kind
                         /\ Home(n) = Home(i) /\ Away(n) = Away(i)
        BY <1>1
    <3> HIDE DEF N1
    <3>2. /\ i.server \in P /\ Used(T, Away(i)) /\ Away(i) \notin L
          /\ i.client \in P =>
                /\ EntryAt(T, Home(i)).state = "lent" /\ Home(i) \notin S
                /\ EntryAt(T, Away(i)).phys = EntryAt(T, Home(i)).phys
                /\ EntryAt(T, Away(i)).writable =>
                      i.kind = "MutableBorrow" /\ EntryAt(T, Home(i)).writable
        BY Zenon DEF Good, LendsOK
    <3> QED BY <3>1, <3>2, Zenon
  <2> HIDE DEF N1
  <2> QED BY <2>1, <2>2, <2>3, Zenon DEF LendsOK
<1> HIDE DEF N1
<1>4. RestOK(P, T, N1, S, L)
    BY <1>2 DEF Good, RestOK
<1>5. \A z : Borrowed(N1, z) <=> Borrowed(N, z)
    BY <1>1, <1>2 DEF Borrowed
<1>6. OwnersOK(P, O, T, N1, L, A, K)
    BY <1>5 DEF Good, OwnersOK
<1>7. PICK d \in Depths : ChainOK(T, N, L, A, d)
    BY DEF Good
<1>8. ChainOK(T, N1, L, A, d)
    BY <1>1, <1>5, <1>7 DEF ChainOK
<1> QED BY <1>3, <1>4, <1>6, <1>8 DEF Good, N1

\* terminate_process: the tables of the process are emptied, and its pages and the messages to
\* its servers go with it.
LEMMA Terminated ==
    ASSUME NEW P, NEW O, NEW T, NEW N, NEW S, NEW L, NEW A, NEW K, Good(P, O, T, N, S, L, A, K),
           NEW p \in Processes,
           NEW U \in [Processes -> [Virts -> Entry]], NEW Q, NEW N1, NEW S1, NEW L1, NEW A1, NEW K1,
           \A z \in Places : z[1] # p => EntryAt(U, z) = EntryAt(T, z),
           \A z \in Places : z[1] = p => EntryAt(U, z).state = "none",
           Q \in [Pages -> Processes \cup {Kernel, None}],
           \A g \in Pages : IF O[g] # p THEN Q[g] = O[g] ELSE Q[g] \in {Kernel, None},
           N1 = {n \in N : n.server # p},
           S1 = {x \in S : x[1] # p} \cup
                {Home(n) : n \in {i \in N : i.server = p /\ i.client \in P \ {p}}},
           L1 = {x \in L : x[1] # p},
           A \subseteq A1, A1 \subseteq Pages,
           \A g \in Pages, z \in Places :
               O[g] = p /\ Q[g] = None /\ z[1] # p /\ Maps(T, z, g) => g \in A1,
           K1 \subseteq Pages,
           \A g \in Pages : (O[g] = p /\ Q[g] = Kernel) \/ (O[g] # p /\ g \in K) => g \in K1
    PROVE  Good(P \ {p}, Q, U, N1, S1, L1, A1, K1)
<1>0. /\ N \subseteq Lending /\ S \subseteq Places /\ L \subseteq Places /\ A \subseteq Pages
      /\ \A n \in N : /\ Home(n) \in Places /\ Away(n) \in Places
                      /\ Home(n)[1] = n.client /\ Away(n)[1] = n.server
    BY MessagePlaces DEF Good, LendsOK, RestOK, OwnersOK
<1>1. /\ \A z \in Places : Used(U, z) <=> Used(T, z) /\ z[1] # p
      /\ \A z \in Places : \A g : Maps(U, z, g) <=> Maps(T, z, g) /\ z[1] # p
      /\ \A z \in Places : Used(U, z) => EntryAt(U, z) = EntryAt(T, z)
      /\ \A z \in Places : EntryAt(U, z).state = "lent" <=> EntryAt(T, z).state = "lent" /\ z[1] # p
    BY DEF Used, Maps
<1>2. EntriesOK(P \ {p}, U)
    BY <1>1 DEF Good, EntriesOK
<1>3. /\ \A n \in N1 : n \in N /\ n.server # p
      /\ \A z \in Places : z[1] # p => (Borrowed(N1, z) <=> Borrowed(N, z)) /\ (z \in L1 <=> z \in L)
      /\ \A z \in Places : Borrowed(N1, z) => Borrowed(N, z)
    BY <1>0 DEF Borrowed
<1>4. ASSUME NEW n \in N1
      PROVE  /\ n.server \in P \ {p} /\ Used(U, Away(n)) /\ Away(n) \notin L1
             /\ n.client \in P \ {p} =>
                   /\ EntryAt(U, Home(n)).state = "lent" /\ Home(n) \notin S1
                   /\ EntryAt(U, Away(n)).phys = EntryAt(U, Home(n)).phys
                   /\ EntryAt(U, Away(n)).writable =>
                         n.kind = "MutableBorrow" /\ EntryAt(U, Home(n)).writable
  <2>1. n \in N /\ n.server # p
      BY <1>3
  <2>2. /\ n.server \in P /\ Used(T, Away(n)) /\ Away(n) \notin L
        /\ n.client \in P =>
              /\ EntryAt(T, Home(n)).state = "lent" /\ Home(n) \notin S
              /\ EntryAt(T, Away(n)).phys = EntryAt(T, Home(n)).phys
              /\ EntryAt(T, Away(n)).writable =>
                    n.kind = "MutableBorrow" /\ EntryAt(T, Home(n)).writable
      BY <2>1, Zenon DEF Good, LendsOK
  <2>3. /\ Home(n) \in Places /\ Away(n) \in Places
        /\ Home(n)[1] = n.client /\ Away(n)[1] = n.server
      BY <1>0, <2>1
  <2>4. EntryAt(U, Away(n)) = EntryAt(T, Away(n)) /\ Used(U, Away(n)) /\ Away(n) \notin L1
      BY <1>1, <2>1, <2>2, <2>3
  <2>5. n.client # p => EntryAt(U, Home(n)) = EntryAt(T, Home(n))
      BY <2>3
  <2>6. n.client \in P \ {p} => Home(n) \notin S1
    <3> SUFFICES ASSUME n.client \in P, Home(n) \in S1 PROVE FALSE
        OBVIOUS
    <3>1. PICK i \in N : i.server = p /\ Home(i) = Home(n)
        BY <2>2
    <3> QED BY <2>1, <3>1 DEF Good, LendsOK
  <2>7. n.server \in P \ {p} /\ (n.client \in P \ {p} => n.client \in P /\ n.client # p)
      BY <2>1, <2>2
  <2> QED BY <2>2, <2>4, <2>5, <2>6, <2>7, Zenon
<1>5. LendsOK(P \ {p}, U, N1, S1, L1)
  <2>1. N1 \subseteq Lending
      BY <1>0, <1>3
  <2>2. \A i, n \in N1 : Away(i) = Away(n) \/ (Home(i) = Home(n) /\ i.client \in P \ {p}) => i = n
      BY <1>3 DEF Good, LendsOK
  <2> QED BY <1>4, <2>1, <2>2, Zenon DEF LendsOK
<1>6. RestOK(P \ {p}, U, N1, S1, L1)
  <2>1. S1 \subseteq Places /\ L1 \subseteq Places
      BY <1>0
  <2>2. ASSUME NEW x \in S1 PROVE x[1] \in P \ {p} /\ EntryAt(U, x).state = "lent"
    <3>1. CASE x \in S /\ x[1] # p
        BY <1>0, <1>1, <3>1 DEF Good, RestOK
    <3>2. ASSUME NEW n \in N, n.client \in P \ {p}, x = Home(n)
          PROVE  x[1] \in P \ {p} /\ EntryAt(U, x).state = "lent"
      <4>1. EntryAt(T, x).state = "lent"
          BY <3>2 DEF Good, LendsOK
      <4> QED BY <1>0, <1>1, <3>2, <4>1
    <3> QED BY <3>1, <3>2
  <2>3. \A x \in L1 : Used(U, x)
      BY <1>0, <1>1 DEF Good, RestOK
  <2>4. ASSUME NEW x \in Places, EntryAt(U, x).state = "lent", x \notin S1
        PROVE  \E n \in N1 : Home(n) = x
    <3>1. EntryAt(T, x).state = "lent" /\ x[1] # p
        BY <1>1, <2>4
    <3>2. x \notin S
        BY <2>4, <3>1
    <3>3. PICK n \in N : Home(n) = x
        BY <3>1, <3>2 DEF Good, RestOK
    <3>4. n.client \in P \ {p}
      <4>1. Used(T, x)
          BY <3>1 DEF Used
      <4> QED BY <1>0, <3>1, <3>3, <4>1, UsedLives DEF Good
    <3>5. n.server # p
        BY <2>4, <3>3, <3>4
    <3> QED BY <3>3, <3>5
  <2> QED BY <2>1, <2>2, <2>3, <2>4 DEF RestOK
<1>7. /\ \A g \in Pages \ A1 : g \in Pages \ A
      /\ \A g \in Pages \ A1 : O[g] = p /\ Q[g] = None => \A z \in Places : z[1] # p => ~Maps(T, z, g)
    BY <1>0
<1>8. OwnersOK(P \ {p}, Q, U, N1, L1, A1, K1)
  <2> SUFFICES ASSUME NEW g \in Pages \ A1
               PROVE  /\ Q[g] = None => \A z \in Places : ~Maps(U, z, g)
                      /\ Q[g] \in Processes =>
                            /\ Q[g] \in P \ {p}
                            /\ g \in K1 \/ \E z \in Places : z[1] = Q[g] /\ Maps(U, z, g) /\ ~Borrowed(N1, z)
                      /\ Q[g] = Kernel => g \in K1
                      /\ \A z \in Places : Maps(U, z, g) /\ ~Borrowed(N1, z) /\ z \notin L1 => Q[g] = z[1]
      BY <1>7 DEF OwnersOK
  <2>0. g \in Pages \ A /\ Kernel \notin Processes /\ None \notin Processes
      BY <1>7, MemoryAssumption
  <2>1. CASE O[g] = p
    <3>1. Q[g] \notin Processes /\ Q[g] \in {Kernel, None}
        BY <2>0, <2>1
    <3>2. Q[g] = None => \A z \in Places : ~Maps(U, z, g)
        BY <1>1, <1>7, <2>1
    <3>3. \A z \in Places : ~(Maps(U, z, g) /\ ~Borrowed(N1, z) /\ z \notin L1)
        BY <1>1, <1>3, <2>0, <2>1 DEF Good, OwnersOK
    <3> QED BY <2>1, <3>1, <3>2, <3>3
  <2>2. CASE O[g] # p
    <3>1. Q[g] = O[g]
        BY <2>2
    <3>2. O[g] \in Processes =>
              g \in K1 \/ \E z \in Places : z[1] = O[g] /\ Maps(U, z, g) /\ ~Borrowed(N1, z)
      <4> SUFFICES ASSUME O[g] \in Processes, g \notin K1
                   PROVE  \E z \in Places : z[1] = O[g] /\ Maps(U, z, g) /\ ~Borrowed(N1, z)
          OBVIOUS
      <4>1. PICK z \in Places : z[1] = O[g] /\ Maps(T, z, g) /\ ~Borrowed(N, z)
          BY <2>0, <2>2 DEF Good, OwnersOK
      <4> QED BY <1>1, <1>3, <2>2, <4>1
    <3>3. \A z \in Places : Maps(U, z, g) /\ ~Borrowed(N1, z) /\ z \notin L1 => O[g] = z[1]
        BY <1>1, <1>3, <2>0 DEF Good, OwnersOK
    <3>4. O[g] \in Processes => O[g] \in P \ {p}
        BY <2>0, <2>2 DEF Good, OwnersOK
    <3>5. O[g] = None => \A z \in Places : ~Maps(U, z, g)
        BY <1>1, <2>0 DEF Good, OwnersOK
    <3>6. O[g] = Kernel => g \in K1
        BY <2>0, <2>2 DEF Good, OwnersOK
    <3> QED BY <3>1, <3>2, <3>3, <3>4, <3>5, <3>6
  <2> QED BY <2>1, <2>2
<1>9. PICK d \in Depths : ChainOK(T, N, L, A, d)
    BY DEF Good
<1>10. ChainOK(U, N1, L1, A1, d)
  <2> SUFFICES ASSUME NEW g \in Pages \ A1, NEW z \in Places, Maps(U, z, g)
               PROVE  /\ \A w \in Places :
                            /\ Maps(U, w, g) /\ w # z
                            /\ (~Borrowed(N1, z) /\ z \notin L1) \/ EntryAt(U, w).state = "valid"
                            => d[z] < d[w]
                      /\ \A n \in N1 : Home(n) = z =>
                            \A w \in Places : Maps(U, w, g) /\ w # z /\ w # Away(n) =>
                                d[w] < d[z] \/ d[Away(n)] < d[w]
      BY DEF ChainOK
  <2>1. g \in Pages \ A /\ \A w \in Places : Maps(U, w, g) =>
            Maps(T, w, g) /\ w[1] # p /\ EntryAt(U, w) = EntryAt(T, w)
      BY <1>1, <1>7
  <2> QED BY <1>3, <1>9, <2>1 DEF ChainOK
<1> QED BY <1>2, <1>5, <1>6, <1>8, <1>9, <1>10 DEF Good

\* create_process: the process has no entries, and no message names it.
LEMMA Created ==
    ASSUME NEW P, NEW O, NEW T, NEW N, NEW S, NEW L, NEW A, NEW K, Good(P, O, T, N, S, L, A, K),
           NEW p \in Processes, \A m \in N : m.client # p
    PROVE  Good(P \cup {p}, O, T, N, S, L, A, K)
<1>1. EntriesOK(P \cup {p}, T)
    BY DEF Good, EntriesOK
<1>2. LendsOK(P \cup {p}, T, N, S, L)
    BY DEF Good, LendsOK
<1>3. RestOK(P \cup {p}, T, N, S, L)
    BY DEF Good, RestOK
<1>4. OwnersOK(P \cup {p}, O, T, N, L, A, K)
    BY DEF Good, OwnersOK
<1> QED BY <1>1, <1>2, <1>3, <1>4 DEF Good

-----------------------------------------------------------------------------
(* The system calls *)

\* alloc_page finds a page if one is free.
LEMMA LowestFree ==
    ASSUME FreePages # {}
    PROVE  NextPage \in FreePages
<1>1. IsWellFoundedOn(OpToRel(<, Nat), Nat)
    BY NatLessThanWellFounded
<1>2. FreePages \subseteq Nat
    BY MemoryAssumption DEF FreePages
<1>3. PICK page \in FreePages : \A other \in FreePages : ~(<<other, page>> \in OpToRel(<, Nat))
    BY <1>1, <1>2, WFMin
<1>4. \A other \in FreePages : ~(other < page)
    BY <1>2, <1>3 DEF OpToRel
<1>5. \A other \in FreePages : page <= other
    BY <1>2, <1>4
<1> QED BY <1>5, Zenon DEF NextPage

\* The parts of an entry, and the places that a message lends from and to.
LEMMA EntryTypes ==
    ASSUME TypeOK, NEW p \in Processes, NEW v \in Virts
    PROVE  /\ <<p, v>> \in Places /\ EntryAt(tables, <<p, v>>) = tables[p][v]
           /\ tables[p][v] \in Entry /\ tables[p][v].phys \in Pages \cup {None}
           /\ tables[p][v].writable \in BOOLEAN
BY DEF TypeOK, Entry, Places, EntryAt

\* ensure_page_exists keeps the invariant.
LEMMA Backs ==
    ASSUME IInv, NEW p \in processes, NEW v \in Virts,
           tables[p][v].state \in {"reserved", "valid"}, ~OutOfPages(p, v)
    PROVE  /\ PageBehind(p, v) \in Pages
           /\ BackedEntry(p, v) \in Entry
           /\ Within(p, v) \in [Processes -> [Virts -> Entry]]
           /\ EntryAt(Within(p, v), <<p, v>>) = BackedEntry(p, v)
           /\ \A z \in Places : z # <<p, v>> => EntryAt(Within(p, v), z) = EntryAt(tables, z)
           /\ BackedOwners(p, v) \in [Pages -> Processes \cup {Kernel, None}]
           /\ Good(processes, BackedOwners(p, v), Within(p, v), Lends(messages), stranded,
                   leftover, astray, leaked)
<1>0. /\ TypeOK /\ p \in Processes /\ <<p, v>> \in Places /\ EntryAt(tables, <<p, v>>) = tables[p][v]
      /\ tables[p][v] \in Entry /\ tables[p][v].writable \in BOOLEAN
      /\ tables \in [Processes -> [Virts -> Entry]]
      /\ MEMORY_ALLOCATIONS \in [Pages -> Processes \cup {Kernel, None}]
    BY EntryTypes DEF IInv, TypeOK
<1>1. ASSUME PageBehind(p, v) \in Pages
      PROVE  /\ BackedEntry(p, v) \in Entry
             /\ Within(p, v) \in [Processes -> [Virts -> Entry]]
             /\ EntryAt(Within(p, v), <<p, v>>) = BackedEntry(p, v)
             /\ \A z \in Places : z # <<p, v>> => EntryAt(Within(p, v), z) = EntryAt(tables, z)
  <2>1. BackedEntry(p, v) \in Entry
      BY <1>0, <1>1 DEF BackedEntry, Entry
  <2> QED BY <1>0, <2>1 DEF Within, EntryAt, Places
<1>2. CASE tables[p][v].state = "valid"
  <2>1. PageBehind(p, v) \in Pages
    <3>1. Used(tables, <<p, v>>) /\ PageBehind(p, v) = tables[p][v].phys
        BY <1>0, <1>2 DEF Used, PageBehind
    <3> QED BY <1>0, <3>1, UsedLives DEF IInv, Good
  <2>2. BackedOwners(p, v) = MEMORY_ALLOCATIONS
      BY <1>2 DEF BackedOwners
  <2>3. BackedEntry(p, v) = tables[p][v]
      BY <1>0, <1>2 DEF BackedEntry, PageBehind, Entry
  <2>4. Within(p, v) = tables
      BY <1>0, <2>3 DEF Within
  <2> QED BY <1>0, <1>1, <2>1, <2>2, <2>4 DEF IInv
<1>3. CASE tables[p][v].state = "reserved"
  <2>1. NextPage \in Pages /\ MEMORY_ALLOCATIONS[NextPage] = None
      BY <1>3, LowestFree DEF OutOfPages, FreePages
  <2>2. PageBehind(p, v) = NextPage /\ BackedOwners(p, v) = [MEMORY_ALLOCATIONS EXCEPT ![NextPage] = p]
      BY <1>3 DEF PageBehind, BackedOwners
  <2>3. ~Used(tables, <<p, v>>) /\ BackedEntry(p, v).state = "valid" /\ BackedEntry(p, v).phys = NextPage
      BY <1>0, <1>3, <2>2 DEF Used, BackedEntry
  <2>4. PICK x \in Places : x = <<p, v>>
      BY <1>0
  <2>5. /\ x[1] = p /\ ~Used(tables, x) /\ EntryAt(Within(p, v), x).state = "valid"
        /\ EntryAt(Within(p, v), x).phys = NextPage
        /\ Within(p, v) \in [Processes -> [Virts -> Entry]]
        /\ \A z \in Places : z # x => EntryAt(Within(p, v), z) = EntryAt(tables, z)
      BY <1>1, <2>1, <2>2, <2>3, <2>4
  <2>6. Good(processes, MEMORY_ALLOCATIONS, tables, Lends(messages), stranded, leftover, astray, leaked)
      BY DEF IInv
  <2>7. Good(processes, [MEMORY_ALLOCATIONS EXCEPT ![NextPage] = x[1]], Within(p, v),
             Lends(messages), stranded, leftover, astray, leaked)
      BY <2>1, <2>5, <2>6, Backed
  <2> QED BY <1>0, <1>1, <2>1, <2>2, <2>5, <2>7
<1> QED BY <1>2, <1>3

\* A process that owns what is at a place has not borrowed it, and it is not left over.
LEMMA OwnsIt ==
    ASSUME IInv, NEW p \in Processes, NEW v \in Virts, Owns(p, v)
    PROVE  ~Borrowed(Lends(messages), <<p, v>>) /\ <<p, v>> \notin leftover
BY DEF Owns, Knows, Borrowed, Lends, Away

LEMMA ReserveStep ==
    ASSUME Accidents = {}, IInv, NEW p \in Processes, NEW v \in Virts, NEW w \in Writables, reserve_range(p, v, w)
    PROVE  IInv'
<1>1. PICK x \in Places : x = <<p, v>>
    BY DEF Places
<1>2. /\ tables' \in [Processes -> [Virts -> Entry]]
      /\ EntryAt(tables', x).state = "reserved"
      /\ \A z \in Places : z # x => EntryAt(tables', z) = EntryAt(tables, z)
  <2>1. [Zero EXCEPT !.state = "reserved", !.writable = w] \in Entry
      BY MemoryAssumption DEF Zero, Entry
  <2>2. [Zero EXCEPT !.state = "reserved", !.writable = w].state = "reserved"
      BY DEF Zero
  <2>3. PICK entry \in Entry : entry.state = "reserved" /\ tables' = [tables EXCEPT ![p][v] = entry]
      BY <2>1, <2>2, Zenon DEF reserve_range
  <2> QED BY <1>1, <2>3 DEF IInv, TypeOK, EntryAt, Places
<1>3. x[1] \in processes /\ ~Used(tables, x) /\ ~Used(tables', x)
    BY <1>1, <1>2 DEF reserve_range, Runs, Used, EntryAt
<1>4. Good(processes, MEMORY_ALLOCATIONS, tables', Lends(messages), stranded, leftover, astray, leaked)
    BY <1>1, <1>2, <1>3, UnusedKept DEF IInv
<1>5. TypeOK'
    BY <1>2 DEF IInv, TypeOK, reserve_range, table, history
<1> QED BY <1>4, <1>5 DEF IInv, SharePanicExplained, MessagesOK, ClientsOK, reserve_range, table, history

LEMMA FaultStep ==
    ASSUME IInv, NEW p \in Processes, NEW v \in Virts, ensure_page_exists(p, v)
    PROVE  IInv'
<1>1. CASE OutOfPages(p, v)
    BY <1>1 DEF ensure_page_exists, table, history, IInv, TypeOK, MessagesOK, ClientsOK, SharePanicExplained
<1>2. CASE ~OutOfPages(p, v)
  <2>1. p \in processes /\ tables[p][v].state \in {"reserved", "valid"}
      BY DEF ensure_page_exists, Runs
  <2>2. tables' = Within(p, v) /\ MEMORY_ALLOCATIONS' = BackedOwners(p, v)
      BY <1>2 DEF ensure_page_exists, Within
  <2>3. /\ tables' \in [Processes -> [Virts -> Entry]]
        /\ MEMORY_ALLOCATIONS' \in [Pages -> Processes \cup {Kernel, None}]
        /\ Good(processes, MEMORY_ALLOCATIONS', tables', Lends(messages), stranded, leftover, astray, leaked)
      BY <1>2, <2>1, <2>2, Backs
  <2>4. TypeOK'
      BY <1>2, <2>3 DEF IInv, TypeOK, ensure_page_exists, table, history
  <2> QED BY <1>2, <2>3, <2>4 DEF IInv, MessagesOK, ClientsOK, SharePanicExplained, ensure_page_exists,
                                   table, history
<1> QED BY <1>1, <1>2

LEMMA ZeroEntry ==
    Zero \in Entry /\ Zero.state = "none"
BY DEF Zero, Entry

LEMMA UnmapStep ==
    ASSUME IInv, NEW p \in Processes, NEW v \in Virts, unmap_page(p, v)
    PROVE  IInv'
<1>1. PICK x \in Places : x = <<p, v>>
    BY DEF Places
<1>2. /\ tables' \in [Processes -> [Virts -> Entry]]
      /\ EntryAt(tables', x).state = "none"
      /\ \A z \in Places : z # x => EntryAt(tables', z) = EntryAt(tables, z)
    BY <1>1, ZeroEntry DEF unmap_page, IInv, TypeOK, EntryAt, Places
<1>3. x[1] \in processes /\ x[1] = p /\ EntryAt(tables, x) = tables[p][v]
    BY <1>1 DEF unmap_page, Runs, EntryAt
<1>4. Good(processes, MEMORY_ALLOCATIONS', tables', Lends(messages), stranded, leftover, astray, leaked)
  <2>0. Good(processes, MEMORY_ALLOCATIONS, tables, Lends(messages), stranded, leftover, astray, leaked)
      BY DEF IInv
  <2>1. CASE tables[p][v].state = "valid"
    <3>1. PICK page : page = tables[p][v].phys
        OBVIOUS
    <3>2. page \in Pages
        BY <1>3, <2>0, <2>1, <3>1, UsedLives DEF Used, Good
    <3>3. MEMORY_ALLOCATIONS' = IF MEMORY_ALLOCATIONS[page] = x[1]
                                THEN [MEMORY_ALLOCATIONS EXCEPT ![page] = None] ELSE MEMORY_ALLOCATIONS
        BY <1>3, <2>1, <3>1 DEF unmap_page, Released
    <3>4. ~Borrowed(Lends(messages), x) /\ x \notin leftover
        BY <1>1, OwnsIt DEF unmap_page
    <3> QED BY <1>2, <1>3, <2>0, <2>1, <3>1, <3>2, <3>3, <3>4, Unmapped
  <2>2. CASE tables[p][v].state # "valid"
    <3>1. MEMORY_ALLOCATIONS' = MEMORY_ALLOCATIONS
        BY <2>2 DEF unmap_page
    <3>2. ~Used(tables, x) /\ ~Used(tables', x)
        BY <1>2, <1>3, <2>2 DEF unmap_page, Owns, Knows, Used
    <3> QED BY <1>2, <1>3, <2>0, <3>1, <3>2, UnusedKept
  <2> QED BY <2>1, <2>2
<1>5. TypeOK'
  <2>1. MEMORY_ALLOCATIONS' \in [Pages -> Processes \cup {Kernel, None}]
      BY <1>4 DEF Good, OwnersOK
  <2> QED BY <1>2, <2>1 DEF IInv, TypeOK, unmap_page, table, history
<1> QED BY <1>4, <1>5 DEF IInv, SharePanicExplained, MessagesOK, ClientsOK, unmap_page, table, history

LEMMA UnmapStrandedStep ==
    ASSUME IInv, NEW p \in Processes, NEW v \in Virts, UnmapStranded(p, v)
    PROVE  IInv'
<1>1. PICK x \in Places : x = <<p, v>>
    BY DEF Places
<1>2. /\ tables' \in [Processes -> [Virts -> Entry]]
      /\ EntryAt(tables', x).state = "none"
      /\ \A z \in Places : z # x => EntryAt(tables', z) = EntryAt(tables, z)
    BY <1>1, ZeroEntry DEF UnmapStranded, IInv, TypeOK, EntryAt, Places
<1>3. /\ x \in stranded /\ x \notin leftover /\ ~Borrowed(Lends(messages), x)
      /\ stranded' = stranded \ {x} /\ leaked' = leaked \cup {EntryAt(tables, x).phys}
    BY <1>1 DEF UnmapStranded, Borrowed, Lends, Away, EntryAt
<1>4. Good(processes, MEMORY_ALLOCATIONS, tables', Lends(messages), stranded', leftover, astray, leaked')
    BY <1>2, <1>3, Unstranded DEF IInv
<1>5. TypeOK'
  <2>1. stranded' \subseteq Places /\ leaked' \subseteq Pages
      BY <1>4 DEF Good, OwnersOK, RestOK
  <2> QED BY <1>2, <2>1 DEF IInv, TypeOK, UnmapStranded, table
<1> QED BY <1>4, <1>5 DEF IInv, SharePanicExplained, MessagesOK, ClientsOK, UnmapStranded, table

-----------------------------------------------------------------------------
(* SendMessage *)

\* A message within a process: the page is backed and stays.
LEMMA TransferWithin ==
    ASSUME IInv, NEW p \in Processes, NEW v \in Virts, NEW d \in Virts, NEW kind \in Kinds,
           MaySend(p, v, p, d, kind), ~OutOfPages(p, v), Transfer(p, v, p, d, kind)
    PROVE  Good(processes, MEMORY_ALLOCATIONS', tables', Lends(messages), stranded, leftover, astray, leaked)
<1>1. p \in processes /\ tables[p][v].state \in {"reserved", "valid"}
    BY DEF MaySend, Runs, Owns, Knows
<1>2. tables' = Within(p, v) /\ MEMORY_ALLOCATIONS' = BackedOwners(p, v)
    BY DEF Transfer
<1> QED BY <1>1, <1>2, Backs

\* The entries of two processes change.
TwoChanged(T, p, v, e, q, d, f) == [T EXCEPT ![p][v] = e, ![q][d] = f]

Differ(U, T, x, e, y, f) ==
    /\ U \in [Processes -> [Virts -> Entry]]
    /\ EntryAt(U, x) = e /\ EntryAt(U, y) = f
    /\ \A z \in Places : z # x /\ z # y => EntryAt(U, z) = EntryAt(T, z)

LEMMA TwoEntries ==
    ASSUME NEW T \in [Processes -> [Virts -> Entry]], NEW p \in Processes, NEW q \in Processes, p # q,
           NEW v \in Virts, NEW d \in Virts, NEW e \in Entry, NEW f \in Entry
    PROVE  Differ(TwoChanged(T, p, v, e, q, d, f), T, <<p, v>>, e, <<q, d>>, f)
<1>0. PICK U : U = TwoChanged(T, p, v, e, q, d, f)
    OBVIOUS
<1>1. /\ U[p] = [T[p] EXCEPT ![v] = e] /\ U[q] = [T[q] EXCEPT ![d] = f]
      /\ \A r \in Processes : r # p /\ r # q => U[r] = T[r]
    BY <1>0 DEF TwoChanged
<1>2. U[p] \in [Virts -> Entry] /\ U[q] \in [Virts -> Entry]
    BY <1>1
<1>3. U \in [Processes -> [Virts -> Entry]]
    BY <1>0, <1>1, <1>2 DEF TwoChanged
<1>4. U[p][v] = e /\ U[q][d] = f
    BY <1>1
<1>5. ASSUME NEW r \in Processes, NEW w \in Virts, <<r, w>> # <<p, v>>, <<r, w>> # <<q, d>>
      PROVE  U[r][w] = T[r][w]
    BY <1>1, <1>5
<1>6. ASSUME NEW z \in Places, z # <<p, v>>, z # <<q, d>>
      PROVE  EntryAt(U, z) = EntryAt(T, z)
  <2>1. PICK r \in Processes, w \in Virts : z = <<r, w>>
      BY DEF Places
  <2> QED BY <1>5, <1>6, <2>1 DEF EntryAt
<1>7. EntryAt(U, <<p, v>>) = e /\ EntryAt(U, <<q, d>>) = f
    BY <1>4 DEF EntryAt
<1> QED BY <1>0, <1>3, <1>6, <1>7 DEF Differ

\* A page that is moved to another process.
LEMMA TransferMove ==
    ASSUME IInv, NEW p \in Processes, NEW q \in Processes, p # q, NEW v \in Virts, NEW d \in Virts,
           MaySend(p, v, q, d, "Move"), ~OutOfPages(p, v), Transfer(p, v, q, d, "Move"),
           NEW L1, L1 = leftover \/ L1 = leftover \cup {<<q, d>>}
    PROVE  Good(processes, MEMORY_ALLOCATIONS', tables', Lends(messages), stranded, L1, astray, leaked)
<1>1. p \in processes /\ q \in processes /\ tables[p][v].state \in {"reserved", "valid"}
      /\ tables[q][d].state = "none" /\ Owns(p, v)
    BY DEF MaySend, Runs, Owns, Knows, Destination, address_available
<1>2. /\ PageBehind(p, v) \in Pages /\ BackedEntry(p, v) \in Entry
      /\ Within(p, v) \in [Processes -> [Virts -> Entry]]
      /\ EntryAt(Within(p, v), <<p, v>>) = BackedEntry(p, v)
      /\ \A z \in Places : z # <<p, v>> => EntryAt(Within(p, v), z) = EntryAt(tables, z)
      /\ BackedOwners(p, v) \in [Pages -> Processes \cup {Kernel, None}]
      /\ Good(processes, BackedOwners(p, v), Within(p, v), Lends(messages), stranded,
              leftover, astray, leaked)
    BY <1>1, Backs
<1>3. /\ tables' = [tables EXCEPT ![p][v] = Zero, ![q][d] = BackedEntry(p, v)]
      /\ MEMORY_ALLOCATIONS' = [MEMORY_ALLOCATIONS EXCEPT ![PageBehind(p, v)] = q]
    BY DEF Transfer, MovedTables
<1>4a. PICK x \in Places : x = <<p, v>>
    BY DEF Places
<1>4b. PICK y \in Places : y = <<q, d>>
    BY DEF Places
<1>4. x = <<p, v>> /\ y = <<q, d>> /\ x # y
    BY <1>4a, <1>4b
<1>5. /\ tables' \in [Processes -> [Virts -> Entry]]
      /\ EntryAt(tables', x).state = "none" /\ EntryAt(tables', y) = BackedEntry(p, v)
      /\ \A z \in Places : z # x /\ z # y => EntryAt(tables', z) = EntryAt(tables, z)
  <2>1. tables \in [Processes -> [Virts -> Entry]]
      BY DEF IInv, TypeOK
  <2>2. Differ(tables', tables, <<p, v>>, Zero, <<q, d>>, BackedEntry(p, v))
    <3>1. tables' = TwoChanged(tables, p, v, Zero, q, d, BackedEntry(p, v))
        BY <1>3 DEF TwoChanged
    <3> QED BY <1>2, <2>1, <3>1, ZeroEntry, TwoEntries
  <2> QED BY <1>4, <2>2, ZeroEntry DEF Differ
<1>6. BackedEntry(p, v).state = "valid" /\ BackedEntry(p, v).phys = PageBehind(p, v)
    BY DEF BackedEntry
<1>7. OwnerSet(MEMORY_ALLOCATIONS', BackedOwners(p, v), PageBehind(p, v), q)
    BY <1>2, <1>3 DEF BackedOwners, PageBehind, IInv, TypeOK, OwnerSet
<1>8. ~Borrowed(Lends(messages), x) /\ x \notin leftover
    BY <1>1, <1>4, OwnsIt
<1>9. /\ EntryAt(Within(p, v), x).state = "valid" /\ EntryAt(Within(p, v), x).phys = PageBehind(p, v)
      /\ EntryAt(Within(p, v), y).state = "none" /\ y[1] = q
      /\ \A z \in Places : z # x /\ z # y => EntryAt(tables', z) = EntryAt(Within(p, v), z)
      /\ EntryAt(tables', y).state = "valid" /\ EntryAt(tables', y).phys = PageBehind(p, v)
    BY <1>1, <1>2, <1>4, <1>5, <1>6 DEF EntryAt
<1>10. L1 = leftover \/ L1 = leftover \cup {y}
    BY <1>4
<1>11. /\ y[1] \in processes /\ y # x
       /\ OwnerSet(MEMORY_ALLOCATIONS', BackedOwners(p, v), PageBehind(p, v), y[1])
    BY <1>1, <1>4, <1>7, <1>9
<1>12. PICK page \in Pages : page = PageBehind(p, v)
    BY <1>2
<1>13. PICK O : O = BackedOwners(p, v)
    OBVIOUS
<1>14. PICK T : T = Within(p, v)
    OBVIOUS
<1>15. /\ Good(processes, O, T, Lends(messages), stranded, leftover, astray, leaked)
       /\ EntryAt(T, x).state = "valid" /\ EntryAt(T, x).phys = page
       /\ EntryAt(T, y).state = "none"
       /\ EntryAt(tables', y).state = "valid" /\ EntryAt(tables', y).phys = page
       /\ \A z \in Places : z # x /\ z # y => EntryAt(tables', z) = EntryAt(T, z)
       /\ OwnerSet(MEMORY_ALLOCATIONS', O, page, y[1])
    BY <1>2, <1>9, <1>11, <1>12, <1>13, <1>14
<1>16. EntryAt(tables', x).state = "none" /\ tables' \in [Processes -> [Virts -> Entry]]
    BY <1>5
<1> QED BY <1>8, <1>10, <1>11, <1>15, <1>16, Moved

\* A page that is lent to another process.
LEMMA TransferLend ==
    ASSUME IInv, NEW p \in Processes, NEW q \in Processes, p # q, NEW v \in Virts, NEW d \in Virts,
           NEW kind \in Kinds, kind # "Move",
           MaySend(p, v, q, d, kind), ~OutOfPages(p, v), Transfer(p, v, q, d, kind),
           NEW N1, NEW S1, NEW L1,
           \/ /\ \E m \in Lending : N1 = Lends(messages) \cup {m} /\ Home(m) = <<p, v>>
                                    /\ Away(m) = <<q, d>> /\ m.kind = kind
              /\ S1 = stranded /\ L1 = leftover
           \/ N1 = Lends(messages) /\ S1 = stranded \cup {<<p, v>>} /\ L1 = leftover \cup {<<q, d>>}
    PROVE  Good(processes, MEMORY_ALLOCATIONS', tables', N1, S1, L1, astray, leaked)
<1>1. p \in processes /\ q \in processes /\ tables[p][v].state \in {"reserved", "valid"}
      /\ tables[q][d].state = "none"
    BY DEF MaySend, Runs, Owns, Knows, Destination, address_available
<1>2. /\ PageBehind(p, v) \in Pages /\ BackedEntry(p, v) \in Entry
      /\ Within(p, v) \in [Processes -> [Virts -> Entry]]
      /\ EntryAt(Within(p, v), <<p, v>>) = BackedEntry(p, v)
      /\ \A z \in Places : z # <<p, v>> => EntryAt(Within(p, v), z) = EntryAt(tables, z)
      /\ Good(processes, BackedOwners(p, v), Within(p, v), Lends(messages), stranded,
              leftover, astray, leaked)
    BY <1>1, Backs
<1>3. /\ tables' = [tables EXCEPT ![p][v] = LentEntry(p, v),
                                  ![q][d] = BorrowedEntry(p, v, kind = "MutableBorrow")]
      /\ MEMORY_ALLOCATIONS' = BackedOwners(p, v)
    BY DEF Transfer, LentTables
<1>4a. PICK x \in Places : x = <<p, v>>
    BY DEF Places
<1>4b. PICK y \in Places : y = <<q, d>>
    BY DEF Places
<1>4. x = <<p, v>> /\ y = <<q, d>> /\ x # y
    BY <1>4a, <1>4b
<1>5. PICK page \in Pages : page = PageBehind(p, v)
    BY <1>2
<1>6. BackedEntry(p, v).state = "valid" /\ BackedEntry(p, v).phys = page
      /\ BackedEntry(p, v).writable \in BOOLEAN
    BY <1>2, <1>5 DEF BackedEntry, Entry
<1>7. /\ LentEntry(p, v) \in Entry /\ LentEntry(p, v).state = "lent" /\ LentEntry(p, v).phys = page
      /\ LentEntry(p, v).writable = BackedEntry(p, v).writable
    BY <1>2, <1>6 DEF LentEntry, Entry
<1>8. /\ BorrowedEntry(p, v, kind = "MutableBorrow").state = "valid"
      /\ BorrowedEntry(p, v, kind = "MutableBorrow").phys = page
      /\ BorrowedEntry(p, v, kind = "MutableBorrow") \in Entry
      /\ BorrowedEntry(p, v, kind = "MutableBorrow").writable =>
            kind = "MutableBorrow" /\ BackedEntry(p, v).writable
    BY <1>2, <1>6 DEF BorrowedEntry, Entry
<1>9. /\ tables' \in [Processes -> [Virts -> Entry]]
      /\ EntryAt(tables', x) = LentEntry(p, v)
      /\ EntryAt(tables', y) = BorrowedEntry(p, v, kind = "MutableBorrow")
      /\ \A z \in Places : z # x /\ z # y => EntryAt(tables', z) = EntryAt(tables, z)
  <2>1. tables \in [Processes -> [Virts -> Entry]]
      BY DEF IInv, TypeOK
  <2>2. PICK f \in Entry : f = BorrowedEntry(p, v, kind = "MutableBorrow")
      BY <1>8
  <2>3. tables' = TwoChanged(tables, p, v, LentEntry(p, v), q, d, f)
      BY <1>3, <2>2 DEF TwoChanged
  <2>4. Differ(tables', tables, <<p, v>>, LentEntry(p, v), <<q, d>>, f)
      BY <1>7, <2>1, <2>3, TwoEntries
  <2> QED BY <1>4, <2>2, <2>4 DEF Differ
<1>10. /\ EntryAt(Within(p, v), x) = BackedEntry(p, v)
       /\ EntryAt(Within(p, v), y).state = "none" /\ y[1] = q
       /\ \A z \in Places : z # x /\ z # y => EntryAt(tables', z) = EntryAt(Within(p, v), z)
    BY <1>1, <1>2, <1>4, <1>9 DEF EntryAt
<1>11. /\ EntryAt(Within(p, v), x).state = "valid" /\ EntryAt(Within(p, v), x).phys = page
       /\ EntryAt(tables', x).state = "lent" /\ EntryAt(tables', x).phys = page
       /\ EntryAt(tables', x).writable = EntryAt(Within(p, v), x).writable
       /\ EntryAt(tables', y).state = "valid" /\ EntryAt(tables', y).phys = page
    BY <1>6, <1>7, <1>8, <1>9, <1>10
<1>12. EntryAt(tables', y).writable => kind = "MutableBorrow" /\ EntryAt(tables', x).writable
    BY <1>7, <1>8, <1>9, Zenon
<1>13. \/ /\ \E m \in Lending :
                /\ N1 = Lends(messages) \cup {m} /\ Home(m) = x /\ Away(m) = y
                /\ EntryAt(tables', y).writable => m.kind = "MutableBorrow" /\ EntryAt(tables', x).writable
          /\ S1 = stranded /\ L1 = leftover
       \/ N1 = Lends(messages) /\ S1 = stranded \cup {x} /\ L1 = leftover \cup {y}
    BY <1>4, <1>12, Zenon
<1>14. /\ y[1] \in processes
       /\ Good(processes, MEMORY_ALLOCATIONS', Within(p, v), Lends(messages), stranded, leftover, astray, leaked)
    BY <1>1, <1>2, <1>3, <1>10
<1> QED BY <1>4, <1>9, <1>10, <1>11, <1>13, <1>14, Lent

\* The types that the invariant of values gives.
LEMMA GoodTypes ==
    ASSUME NEW P, NEW O, NEW T, NEW N, NEW S, NEW L, NEW A, NEW K, Good(P, O, T, N, S, L, A, K)
    PROVE  /\ P \subseteq Processes /\ O \in [Pages -> Processes \cup {Kernel, None}]
           /\ T \in [Processes -> [Virts -> Entry]]
           /\ S \subseteq Places /\ L \subseteq Places /\ A \subseteq Pages /\ K \subseteq Pages
BY DEF Good, EntriesOK, OwnersOK, RestOK

\* A send leaves the rest of the process table alone, and its call waits at most.
Sends(p, v, q, kind) ==
    /\ processes' = processes /\ satp' = satp /\ allocated' = allocated
    /\ astray' = astray /\ leaked' = leaked /\ panicked' = panicked
    /\ retries' \subseteq retries \cup {[client |-> p, caddr |-> v, server |-> q, kind |-> kind]}

LEMMA SendsTypes ==
    ASSUME IInv, NEW p \in Processes, NEW q \in Processes, NEW v \in Virts, NEW kind \in Kinds,
           Sends(p, v, q, kind), messages' \subseteq Message, NEW N, NEW S, NEW L,
           S = stranded', L = leftover',
           Good(processes, MEMORY_ALLOCATIONS', tables', N, S, L, astray, leaked)
    PROVE  TypeOK'
<1>1. [client |-> p, caddr |-> v, server |-> q, kind |-> kind] \in Call
    BY DEF Call
<1> QED BY <1>1, GoodTypes DEF IInv, TypeOK, Sends

\* A message that moves a page, or that stays within its process, lends nothing.
LEMMA NoLend ==
    ASSUME NEW M, NEW m, m.client = m.server \/ m.kind = "Move"
    PROVE  Lends(M \cup {m}) = Lends(M) /\ Lends(M \ {m}) = Lends(M)
BY DEF Lends

LEMMA SendStep ==
    ASSUME IInv, NEW p \in Processes, NEW q \in Processes, NEW v \in Virts, NEW d \in Virts,
           NEW kind \in Kinds, MaySend(p, v, q, d, kind),
           NEW others, others \subseteq retries, Send(p, v, q, d, kind, others)
    PROVE  IInv'
<1>1. PICK m : m = [client |-> p, caddr |-> v, server |-> q, saddr |-> d, kind |-> kind, state |-> "queued"]
    OBVIOUS
<1>2. /\ m \in Message /\ m.client = p /\ m.server = q /\ m.kind = kind /\ m.state = "queued"
      /\ m.caddr = v /\ m.saddr = d
    BY <1>1 DEF Message
<1>3. /\ messages' = messages \cup {m} /\ Sends(p, v, q, kind) /\ stranded' = stranded
      /\ leftover' = leftover /\ ~OutOfPages(p, v) /\ Transfer(p, v, q, d, kind)
    BY <1>1 DEF Send, table, history, Sends
<1>4. Good(processes, MEMORY_ALLOCATIONS', tables', Lends(messages'), stranded, leftover, astray, leaked)
  <2>1. CASE p = q
    <3>1. Lends(messages') = Lends(messages)
        BY <1>2, <1>3, <2>1, NoLend
    <3> QED BY <1>3, <2>1, <3>1, TransferWithin
  <2>2. CASE p # q /\ kind = "Move"
    <3>1. Lends(messages') = Lends(messages)
        BY <1>2, <1>3, <2>2, NoLend
    <3>2. PICK L : L = leftover
        OBVIOUS
    <3>3. Good(processes, MEMORY_ALLOCATIONS', tables', Lends(messages), stranded, L, astray, leaked)
        BY <1>3, <2>2, <3>2, TransferMove
    <3> QED BY <3>1, <3>2, <3>3
  <2>3. CASE p # q /\ kind # "Move"
    <3>1. m \in Lending /\ Home(m) = <<p, v>> /\ Away(m) = <<q, d>>
        BY <1>2, <2>3 DEF Lending, Home, Away
    <3>2. Lends(messages') = Lends(messages) \cup {m}
        BY <1>2, <1>3, <2>3 DEF Lends
    <3>3. \E n \in Lending : Lends(messages') = Lends(messages) \cup {n} /\ Home(n) = <<p, v>>
                             /\ Away(n) = <<q, d>> /\ n.kind = kind
        BY <1>2, <3>1, <3>2
    <3> QED BY <1>3, <2>3, <3>3, TransferLend
  <2> QED BY <2>1, <2>2, <2>3
<1>5. TypeOK'
  <2>1. messages' \subseteq Message
      BY <1>2, <1>3 DEF IInv, TypeOK
  <2> QED BY <1>3, <1>4, <2>1, SendsTypes
<1>6. MessagesOK'
  <2>1. p = q => v = d
      BY <1>3 DEF MaySend, Destination
  <2> QED BY <1>2, <1>3, <2>1 DEF IInv, MessagesOK
<1>7. ClientsOK' /\ SharePanicExplained'
    BY <1>2, <1>3 DEF IInv, ClientsOK, SharePanicExplained, Sends, MaySend, Runs
<1> QED BY <1>3, <1>4, <1>5, <1>6, <1>7 DEF IInv, Sends

LEMMA SendMoveDirectStep ==
    ASSUME IInv, NEW p \in Processes, NEW q \in Processes, NEW v \in Virts, NEW d \in Virts,
           MaySend(p, v, q, d, "Move"), NEW others, others \subseteq retries,
           SendMoveDirect(p, v, q, d, others)
    PROVE  IInv'
<1>1. /\ messages' = messages /\ Sends(p, v, q, "Move") /\ stranded' = stranded
      /\ leftover' = leftover /\ ~OutOfPages(p, v) /\ Transfer(p, v, q, d, "Move")
    BY DEF SendMoveDirect, table, history, Sends
<1>2. Good(processes, MEMORY_ALLOCATIONS', tables', Lends(messages), stranded, leftover, astray, leaked)
  <2>1. CASE p = q
      BY <1>1, <2>1, TransferWithin DEF Kinds
  <2>2. CASE p # q
    <3>1. PICK L : L = leftover
        OBVIOUS
    <3>2. Good(processes, MEMORY_ALLOCATIONS', tables', Lends(messages), stranded, L, astray, leaked)
        BY <1>1, <2>2, <3>1, TransferMove
    <3> QED BY <3>1, <3>2
  <2> QED BY <2>1, <2>2
<1>3. TypeOK'
    BY <1>1, <1>2, SendsTypes DEF IInv, TypeOK, Kinds
<1>4. MessagesOK' /\ ClientsOK' /\ SharePanicExplained'
    BY <1>1 DEF IInv, MessagesOK, ClientsOK, SharePanicExplained, Sends
<1> QED BY <1>1, <1>2, <1>3, <1>4 DEF IInv, Sends

LEMMA SendUnqueuedStep ==
    ASSUME IInv, NEW p \in Processes, NEW q \in Processes, NEW v \in Virts, NEW d \in Virts,
           NEW kind \in Kinds, MaySend(p, v, q, d, kind),
           NEW others, others \subseteq retries, SendUnqueued(p, v, q, d, kind, others)
    PROVE  IInv'
<1>1. /\ messages' = messages /\ Sends(p, v, q, kind)
      /\ ~OutOfPages(p, v) /\ Transfer(p, v, q, d, kind)
    BY DEF SendUnqueued, table, Sends
<1>2. Good(processes, MEMORY_ALLOCATIONS', tables', Lends(messages), stranded', leftover', astray, leaked)
  <2>1. CASE p = q
    <3>1. stranded' = stranded /\ leftover' = leftover
        BY <2>1 DEF SendUnqueued
    <3> QED BY <1>1, <2>1, <3>1, TransferWithin
  <2>2. CASE p # q /\ kind = "Move"
    <3>1. stranded' = stranded /\ leftover' = leftover \cup {<<q, d>>}
        BY <2>2 DEF SendUnqueued
    <3> QED BY <1>1, <2>2, <3>1, TransferMove
  <2>3. CASE p # q /\ kind # "Move"
    <3>1. stranded' = stranded \cup {<<p, v>>} /\ leftover' = leftover \cup {<<q, d>>}
        BY <2>3 DEF SendUnqueued
    <3>2. PICK N : N = Lends(messages)
        OBVIOUS
    <3>3. Good(processes, MEMORY_ALLOCATIONS', tables', N, stranded', leftover', astray, leaked)
        BY <1>1, <2>3, <3>1, <3>2, TransferLend
    <3> QED BY <3>2, <3>3
  <2> QED BY <2>1, <2>2, <2>3
<1>3. TypeOK'
    BY <1>1, <1>2, SendsTypes DEF IInv, TypeOK
<1>4. MessagesOK' /\ ClientsOK' /\ SharePanicExplained'
    BY <1>1 DEF IInv, MessagesOK, ClientsOK, SharePanicExplained, Sends
<1> QED BY <1>1, <1>2, <1>3, <1>4 DEF IInv, Sends

LEMMA SendPanicsStep ==
    ASSUME IInv, NEW p \in Processes, NEW q \in Processes, NEW v \in Virts, NEW kind \in Kinds,
           NEW others, others \subseteq retries, SendPanics(p, v, q, kind, others)
    PROVE  IInv'
BY DEF SendPanics, table, history, IInv, TypeOK, MessagesOK, ClientsOK, SharePanicExplained

LEMMA AttemptStep ==
    ASSUME IInv, NEW p \in Processes, NEW q \in Processes, NEW v \in Virts, NEW d \in Virts,
           NEW kind \in Kinds, MaySend(p, v, q, d, kind),
           NEW others, others \subseteq retries, Attempt(p, v, q, d, kind, others)
    PROVE  IInv'
<1>1. CASE Send(p, v, q, d, kind, others)
    BY <1>1, SendStep
<1>2. CASE SendUnqueued(p, v, q, d, kind, others)
    BY <1>2, SendUnqueuedStep
<1>3. CASE SendPanics(p, v, q, kind, others)
    BY <1>3, SendPanicsStep
<1>4. CASE kind = "Move" /\ SendMoveDirect(p, v, q, d, others)
    BY <1>4, SendMoveDirectStep
<1> QED BY <1>1, <1>2, <1>3, <1>4 DEF Attempt

\* Without accidents, a call that is made again sends what its process owns.
LEMMA SendAgainStep ==
    ASSUME Accidents = {}, IInv, NEW c \in retries, NEW d \in Virts, SendAgain(c, d)
    PROVE  IInv'
<1>1. /\ c.client \in Processes /\ c.server \in Processes /\ c.caddr \in Virts /\ c.kind \in Kinds
    BY DEF IInv, TypeOK, Call
<1>2. MaySend(c.client, c.caddr, c.server, d, c.kind)
    BY DEF SendAgain, MaySend, Owns
<1>3. Attempt(c.client, c.caddr, c.server, d, c.kind, retries \ {c})
    BY DEF SendAgain
<1> QED BY <1>1, <1>2, <1>3, AttemptStep

LEMMA SendFailsStep ==
    ASSUME IInv, NEW c \in retries, SendFails(c)
    PROVE  IInv'
BY DEF SendFails, table, history, IInv, TypeOK, MessagesOK, ClientsOK, SharePanicExplained

-----------------------------------------------------------------------------
(* ReceiveMessage, ReturnMemory and terminate_process *)

LEMMA ReceiveStep ==
    ASSUME IInv, NEW m \in messages, Receive(m)
    PROVE  IInv'
<1>0. m \in Message /\ messages \subseteq Message
    BY DEF IInv, TypeOK
<1>1. PICK k : k = [m EXCEPT !.state = "held"]
    OBVIOUS
<1>2. /\ k \in Message /\ k.client = m.client /\ k.server = m.server /\ k.kind = m.kind
      /\ k.caddr = m.caddr /\ k.saddr = m.saddr /\ k.state = "held"
    BY <1>0, <1>1 DEF Message
<1>3. /\ processes' = processes /\ MEMORY_ALLOCATIONS' = MEMORY_ALLOCATIONS /\ tables' = tables
      /\ stranded' = stranded /\ leftover' = leftover /\ astray' = astray /\ panicked' = panicked
      /\ satp' = satp /\ allocated' = allocated /\ retries' = retries /\ leaked' = leaked
      /\ messages' = IF m.kind = "Move" THEN messages \ {m} ELSE (messages \ {m}) \cup {k}
    BY <1>1 DEF Receive, table, history
<1>4. Good(processes, MEMORY_ALLOCATIONS, tables, Lends(messages'), stranded, leftover, astray, leaked)
  <2>1. CASE m.client = m.server \/ m.kind = "Move"
    <3>1. Lends(messages \ {m}) = Lends(messages)
        BY <2>1, NoLend
    <3>2. Lends((messages \ {m}) \cup {k}) = Lends(messages \ {m})
        BY <1>2, <2>1, NoLend
    <3> QED BY <1>3, <3>1, <3>2 DEF IInv
  <2>2. CASE m.client # m.server /\ m.kind # "Move"
    <3>1. Lends(messages') = (Lends(messages) \ {m}) \cup {k}
        BY <1>2, <1>3, <2>2 DEF Lends
    <3>2. m \in Lends(messages) /\ k \in Lending /\ Home(k) = Home(m) /\ Away(k) = Away(m)
        BY <1>2, <2>2 DEF Lends, Lending, Home, Away
    <3> QED BY <1>2, <3>1, <3>2, Received DEF IInv
  <2> QED BY <2>1, <2>2
<1>5. TypeOK'
    BY <1>0, <1>2, <1>3 DEF IInv, TypeOK
<1>6. MessagesOK'
    BY <1>2, <1>3 DEF IInv, MessagesOK
<1>7. ClientsOK' /\ SharePanicExplained'
    BY <1>2, <1>3 DEF IInv, ClientsOK, SharePanicExplained
<1> QED BY <1>3, <1>4, <1>5, <1>6, <1>7 DEF IInv

\* What a held message is.
LEMMA HeldMessage ==
    ASSUME IInv, NEW m \in messages, m.state = "held"
    PROVE  /\ m.client \in Processes /\ m.server \in Processes /\ m.caddr \in Virts /\ m.saddr \in Virts
           /\ m.client = m.server => Home(m) = Away(m) /\ Lends(messages \ {m}) = Lends(messages)
           /\ m.client # m.server => /\ m \in Lends(messages)
                                     /\ Lends(messages \ {m}) = Lends(messages) \ {m}
<1>1. m \in Message /\ m.kind # "Move" /\ (m.client = m.server => m.caddr = m.saddr)
    BY DEF IInv, TypeOK, MessagesOK, SharePanicExplained
<1> QED BY <1>1, NoLend DEF Message, Lends, Home, Away

LEMMA ReturnMemoryStep ==
    ASSUME IInv, NEW m \in messages, ReturnMemory(m)
    PROVE  IInv'
<1>1. /\ m.client \in Processes /\ m.server \in Processes /\ m.caddr \in Virts /\ m.saddr \in Virts
      /\ m.client = m.server => Home(m) = Away(m) /\ Lends(messages \ {m}) = Lends(messages)
      /\ m.client # m.server => /\ m \in Lends(messages)
                                /\ Lends(messages \ {m}) = Lends(messages) \ {m}
    BY HeldMessage DEF ReturnMemory, MayReturn
<1>2. /\ processes' = processes /\ MEMORY_ALLOCATIONS' = MEMORY_ALLOCATIONS
      /\ stranded' = stranded /\ leftover' = leftover /\ astray' = astray
      /\ satp' = satp /\ allocated' = allocated /\ retries' = retries /\ leaked' = leaked
      /\ messages' = messages \ {m} /\ m.client \in processes
      /\ tables[m.server][m.saddr].state = "valid"
    BY DEF ReturnMemory, MayReturn, table, history
<1>3. tables \in [Processes -> [Virts -> Entry]]
    BY DEF IInv, TypeOK
<1>4. /\ Good(processes, MEMORY_ALLOCATIONS, tables', Lends(messages'), stranded, leftover, astray, leaked)
      /\ panicked' = panicked
  <2>1. CASE m.client = m.server
      BY <1>1, <1>2, <2>1 DEF ReturnMemory, ReturnedTables, IInv
  <2>2. CASE m.client # m.server
    <3>1. tables[m.client][m.caddr].state = "lent"
        BY <1>1, <1>2, <2>2 DEF IInv, Good, LendsOK, EntryAt, Home
    <3>2. PICK e : e = [tables[m.client][m.caddr] EXCEPT !.state = "valid"]
        OBVIOUS
    <3>3. /\ e \in Entry /\ e.state = "valid" /\ e.phys = tables[m.client][m.caddr].phys
          /\ e.writable = tables[m.client][m.caddr].writable
      <4>1. tables[m.client][m.caddr] \in Entry
          BY <1>1, <1>3
      <4> QED BY <3>2, <4>1 DEF Entry
    <3>4. tables' = TwoChanged(tables, m.server, m.saddr, Zero, m.client, m.caddr, e)
        BY <1>1, <1>3, <2>2, <3>1, <3>2 DEF ReturnMemory, ReturnedTables, TwoChanged
    <3>5. Differ(tables', tables, Away(m), Zero, Home(m), e)
        BY <1>1, <1>3, <2>2, <3>3, <3>4, ZeroEntry, TwoEntries DEF Home, Away
    <3>6. PICK x, y : x = Home(m) /\ y = Away(m)
        OBVIOUS
    <3>7. /\ tables' \in [Processes -> [Virts -> Entry]]
          /\ EntryAt(tables, y).state = "valid" /\ EntryAt(tables', y).state = "none"
          /\ EntryAt(tables', x).state = "valid" /\ EntryAt(tables', x).phys = EntryAt(tables, x).phys
          /\ EntryAt(tables', x).writable = EntryAt(tables, x).writable
          /\ \A z \in Places : z # x /\ z # y => EntryAt(tables', z) = EntryAt(tables, z)
      <4>1. EntryAt(tables, y) = tables[m.server][m.saddr] /\ EntryAt(tables, x) = tables[m.client][m.caddr]
          BY <3>6 DEF EntryAt, Home, Away
      <4> QED BY <1>2, <3>3, <3>5, <3>6, <4>1, ZeroEntry DEF Differ
    <3>8. panicked' = panicked
        BY <3>1 DEF ReturnMemory
    <3>9. Good(processes, MEMORY_ALLOCATIONS, tables', Lends(messages) \ {m}, stranded, leftover, astray, leaked)
        BY <1>1, <1>2, <2>2, <3>6, <3>7, Returned DEF IInv
    <3> QED BY <1>1, <1>2, <2>2, <3>8, <3>9
  <2> QED BY <2>1, <2>2
<1>5. TypeOK'
    BY <1>2, <1>4, GoodTypes DEF IInv, TypeOK
<1>6. MessagesOK' /\ ClientsOK' /\ SharePanicExplained'
    BY <1>2, <1>4 DEF IInv, MessagesOK, ClientsOK, SharePanicExplained
<1> QED BY <1>2, <1>4, <1>5, <1>6 DEF IInv

LEMMA ReturnToNobodyStep ==
    ASSUME IInv, NEW m \in messages, ReturnToNobody(m)
    PROVE  IInv'
<1>1. m.client # m.server /\ m.state = "held"
    BY DEF ReturnToNobody, MayReturn, Runs
<1>2. m \in Lends(messages) /\ Lends(messages \ {m}) = Lends(messages) \ {m}
    BY <1>1, HeldMessage
<1>3. /\ processes' = processes /\ MEMORY_ALLOCATIONS' = MEMORY_ALLOCATIONS /\ tables' = tables
      /\ stranded' = stranded /\ leftover' = leftover \cup {Away(m)} /\ astray' = astray
      /\ satp' = satp /\ allocated' = allocated /\ retries' = retries /\ leaked' = leaked
      /\ messages' = messages \ {m} /\ panicked' = panicked
    BY DEF ReturnToNobody, table, Away
<1>4. stranded' = stranded \cup ({Home(m)} \cap (processes \X Virts))
    BY <1>3 DEF ReturnToNobody, Home
<1>5. Good(processes, MEMORY_ALLOCATIONS, tables, Lends(messages) \ {m}, stranded', leftover', astray, leaked)
    BY <1>2, <1>3, <1>4, Dropped DEF IInv
<1>6. TypeOK'
    BY <1>3, <1>5, GoodTypes DEF IInv, TypeOK
<1>7. MessagesOK' /\ ClientsOK' /\ SharePanicExplained'
    BY <1>3 DEF IInv, MessagesOK, ClientsOK, SharePanicExplained
<1> QED BY <1>2, <1>3, <1>5, <1>6, <1>7 DEF IInv

LEMMA ReturnToAllocatedStep ==
    ASSUME IInv, NEW m \in messages, ReturnToAllocated(m)
    PROVE  IInv'
BY DEF ReturnToAllocated, table, history, IInv, TypeOK, MessagesOK, ClientsOK, SharePanicExplained

LEMMA ReturnFailsStep ==
    ASSUME IInv, NEW m \in messages, ReturnFails(m)
    PROVE  IInv'
<1>1. /\ m.client = m.server => Lends(messages \ {m}) = Lends(messages)
      /\ m.client # m.server => /\ m \in Lends(messages)
                                /\ Lends(messages \ {m}) = Lends(messages) \ {m}
    BY HeldMessage DEF ReturnFails
<1>2. /\ processes' = processes /\ MEMORY_ALLOCATIONS' = MEMORY_ALLOCATIONS /\ tables' = tables
      /\ satp' = satp /\ allocated' = allocated /\ retries' = retries /\ leaked' = leaked
      /\ messages' = messages \ {m} /\ panicked' = panicked /\ astray' = astray
      /\ m.client = m.server => stranded' = stranded /\ leftover' = leftover
      /\ m.client # m.server => /\ stranded' = stranded \cup ({Home(m)} \cap (processes \X Virts))
                                /\ leftover' = leftover \cup {Away(m)}
    BY DEF ReturnFails, table, Away, Home
<1>3. Good(processes, MEMORY_ALLOCATIONS, tables, Lends(messages'), stranded', leftover', astray, leaked)
  <2>1. CASE m.client = m.server
      BY <1>1, <1>2, <2>1 DEF IInv
  <2>2. CASE m.client # m.server
    <3>1. Good(processes, MEMORY_ALLOCATIONS, tables, Lends(messages), stranded, leftover, astray,
               leaked)
        BY DEF IInv
    <3>2. m \in Lends(messages) /\ Lends(messages') = Lends(messages) \ {m}
        BY <1>1, <1>2, <2>2
    <3>3. /\ stranded' = stranded \cup ({Home(m)} \cap (processes \X Virts))
          /\ leftover' = leftover \cup {Away(m)}
        BY <1>2, <2>2
    <3>4. Good(processes, MEMORY_ALLOCATIONS, tables, Lends(messages) \ {m}, stranded', leftover',
               astray, leaked)
        BY <3>1, <3>2, <3>3, Dropped
    <3> QED BY <3>2, <3>4
  <2> QED BY <2>1, <2>2
<1>4. TypeOK'
    BY <1>2, <1>3, GoodTypes DEF IInv, TypeOK
<1>5. MessagesOK' /\ ClientsOK' /\ SharePanicExplained'
    BY <1>2 DEF IInv, MessagesOK, ClientsOK, SharePanicExplained
<1> QED BY <1>2, <1>3, <1>4, <1>5 DEF IInv

LEMMA TerminateStep ==
    ASSUME IInv, NEW p \in Processes, TerminateProcess(p)
    PROVE  IInv'
<1>0. Good(processes, MEMORY_ALLOCATIONS, tables, Lends(messages), stranded, leftover, astray, leaked) /\ TypeOK
    BY DEF IInv
<1>1. /\ tables' \in [Processes -> [Virts -> Entry]]
      /\ \A z \in Places : z[1] # p => EntryAt(tables', z) = EntryAt(tables, z)
      /\ \A z \in Places : z[1] = p => EntryAt(tables', z).state = "none"
    BY <1>0, ZeroEntry DEF TerminateProcess, TypeOK, EntryAt, Places
<1>2. /\ MEMORY_ALLOCATIONS' \in [Pages -> Processes \cup {Kernel, None}]
      /\ \A g \in Pages : IF MEMORY_ALLOCATIONS[g] # p THEN MEMORY_ALLOCATIONS'[g] = MEMORY_ALLOCATIONS[g]
                          ELSE IF page_is_lent(p, g) THEN MEMORY_ALLOCATIONS'[g] = Kernel
                          ELSE MEMORY_ALLOCATIONS'[g] = None
    BY <1>0 DEF TerminateProcess, release_all_memory_for_process, TypeOK
<1>3. Lends(messages') = {n \in Lends(messages) : n.server # p}
    BY DEF TerminateProcess, Lends
<1>4. stranded' = {x \in stranded : x[1] # p} \cup
                  {Home(n) : n \in {i \in Lends(messages) : i.server = p /\ i.client \in processes \ {p}}}
    BY DEF TerminateProcess, Lends, Home
<1>5. /\ processes' = processes \ {p} /\ leftover' = {x \in leftover : x[1] # p} /\ panicked' = panicked
      /\ messages' \subseteq messages
      /\ satp' = satp /\ allocated' = allocated /\ retries' \subseteq retries
    BY DEF TerminateProcess
<1>6. /\ astray \subseteq astray' /\ astray' \subseteq Pages
      /\ \A g \in Pages, z \in Places :
            MEMORY_ALLOCATIONS[g] = p /\ ~page_is_lent(p, g) /\ z[1] # p /\ Maps(tables, z, g) => g \in astray'
  <2>1. astray' = astray \cup {g \in Pages :
                    MEMORY_ALLOCATIONS[g] = p /\ ~page_is_lent(p, g) /\ MappedElsewhere(p, g)}
      BY DEF TerminateProcess
  <2>2. ASSUME NEW g \in Pages, NEW z \in Places, z[1] # p, Maps(tables, z, g) PROVE MappedElsewhere(p, g)
    <3>1. z[1] \in processes \ {p} /\ z[2] \in Virts /\ tables[z[1]][z[2]].phys = g
        BY <1>0, <2>2, UsedLives DEF Maps, Good, EntryAt, Places
    <3> QED BY <3>1 DEF MappedElsewhere
  <2> QED BY <1>0, <2>1, <2>2 DEF TypeOK
<1>7. /\ leaked' \subseteq Pages
      /\ \A g \in Pages : \/ MEMORY_ALLOCATIONS[g] = p /\ page_is_lent(p, g)
                          \/ MEMORY_ALLOCATIONS[g] # p /\ g \in leaked
                          => g \in leaked'
    BY <1>0 DEF TerminateProcess, TypeOK
<1>8. Good(processes \ {p}, MEMORY_ALLOCATIONS', tables', Lends(messages'), stranded', leftover', astray', leaked')
  <2>1. /\ \A g \in Pages, z \in Places :
              /\ MEMORY_ALLOCATIONS[g] = p /\ MEMORY_ALLOCATIONS'[g] = None
              /\ z[1] # p /\ Maps(tables, z, g)
              => g \in astray'
        /\ \A g \in Pages : \/ MEMORY_ALLOCATIONS[g] = p /\ MEMORY_ALLOCATIONS'[g] = Kernel
                            \/ MEMORY_ALLOCATIONS[g] # p /\ g \in leaked
                            => g \in leaked'
        /\ \A g \in Pages : IF MEMORY_ALLOCATIONS[g] # p THEN MEMORY_ALLOCATIONS'[g] = MEMORY_ALLOCATIONS[g]
                            ELSE MEMORY_ALLOCATIONS'[g] \in {Kernel, None}
      BY <1>2, <1>6, <1>7, MemoryAssumption
  <2> QED BY <1>0, <1>1, <1>2, <1>3, <1>4, <1>5, <1>6, <1>7, <2>1, Terminated
<1>9. TypeOK'
    BY <1>5, <1>7, <1>8, GoodTypes DEF IInv, TypeOK
<1>10. MessagesOK' /\ ClientsOK' /\ SharePanicExplained'
    BY <1>5 DEF IInv, MessagesOK, ClientsOK, SharePanicExplained
<1> QED BY <1>5, <1>8, <1>9, <1>10 DEF IInv

LEMMA CreateStep ==
    ASSUME IInv, NEW p \in Processes, create_process(p)
    PROVE  IInv'
<1>1. /\ MEMORY_ALLOCATIONS' = MEMORY_ALLOCATIONS /\ tables' = tables /\ messages' = messages
      /\ retries' = retries /\ panicked' = panicked
      /\ stranded' = stranded /\ leftover' = leftover /\ astray' = astray /\ leaked' = leaked
    BY DEF create_process, history
<1>2. CASE p \in satp
  <2>1. processes' = processes /\ satp' = satp /\ allocated' = allocated \cup {p}
      BY <1>2 DEF create_process
  <2> QED BY <1>1, <2>1 DEF IInv, TypeOK, MessagesOK, ClientsOK, SharePanicExplained
<1>3. CASE p \notin satp
  <2>1. processes' = processes \cup {p} /\ satp' = satp \cup {p} /\ allocated' = allocated
      BY <1>3 DEF create_process
  <2>2. \A m \in Lends(messages) : m.client # p
      BY <1>3 DEF IInv, ClientsOK, Lends
  <2>3. Good(processes \cup {p}, MEMORY_ALLOCATIONS, tables, Lends(messages), stranded, leftover,
             astray, leaked)
      BY <2>2, Created DEF IInv
  <2>4. TypeOK' /\ MessagesOK' /\ ClientsOK' /\ SharePanicExplained'
      BY <1>1, <2>1 DEF IInv, TypeOK, MessagesOK, ClientsOK, SharePanicExplained
  <2> QED BY <1>1, <2>1, <2>3, <2>4 DEF IInv
<1> QED BY <1>2, <1>3

-----------------------------------------------------------------------------
(* The invariant and what it gives *)

LEMMA InitIInv ==
    Init => IInv
<1> SUFFICES ASSUME Init PROVE IInv
    OBVIOUS
<1>1. TypeOK /\ MessagesOK /\ ClientsOK /\ SharePanicExplained
    BY ZeroEntry DEF Init, TypeOK, MessagesOK, ClientsOK, SharePanicExplained
<1>2. Lends(messages) = {} /\ stranded = {} /\ leftover = {} /\ astray = {}
    BY DEF Init, Lends
<1>3. \A x \in Places : EntryAt(tables, x).state = "none" /\ ~Used(tables, x)
    BY ZeroEntry DEF Init, EntryAt, Places, Used
<1>4. \A x \in Places : \A page : ~Maps(tables, x, page)
    BY <1>3 DEF Maps
<1>5. EntriesOK(processes, tables)
    BY <1>1, <1>3 DEF EntriesOK, TypeOK
<1>6. LendsOK(processes, tables, Lends(messages), stranded, leftover)
    BY <1>2 DEF LendsOK
<1>7. RestOK(processes, tables, Lends(messages), stranded, leftover)
    BY <1>2, <1>3 DEF RestOK
<1>8. OwnersOK(processes, MEMORY_ALLOCATIONS, tables, Lends(messages), leftover, astray, leaked)
    BY <1>1, <1>2, <1>4, MemoryAssumption DEF OwnersOK, Init, TypeOK
<1>9. [x \in Places |-> 0] \in Depths
    BY DEF Depths
<1>10. ChainOK(tables, Lends(messages), leftover, astray, [x \in Places |-> 0])
    BY <1>4 DEF ChainOK
<1> QED BY <1>1, <1>5, <1>6, <1>7, <1>8, <1>9, <1>10 DEF IInv, Good

LEMMA NextIInv ==
    ASSUME Accidents = {} PROVE IInv /\ [Next]_vars => IInv'
<1> SUFFICES ASSUME IInv, [Next]_vars PROVE IInv'
    OBVIOUS
<1>1. ASSUME NEW p \in Processes, NEW v \in Virts,
             \/ \E w \in Writables : reserve_range(p, v, w)
             \/ ensure_page_exists(p, v) \/ unmap_page(p, v) \/ UnmapStranded(p, v)
      PROVE  IInv'
    BY <1>1, ReserveStep, FaultStep, UnmapStep, UnmapStrandedStep
<1>2. ASSUME NEW p \in Processes, NEW q \in Processes, NEW v \in Virts, NEW d \in Virts,
             NEW kind \in Kinds, SendMessage(p, v, q, d, kind)
      PROVE  IInv'
    BY <1>2, AttemptStep DEF SendMessage
<1>3. ASSUME NEW c \in retries, (\E d \in Virts : SendAgain(c, d)) \/ SendFails(c)
      PROVE  IInv'
    BY <1>3, SendAgainStep, SendFailsStep
<1>4. ASSUME NEW m \in messages,
             \/ Receive(m) \/ ReturnMemory(m) \/ ReturnToNobody(m) \/ ReturnToAllocated(m)
             \/ ReturnFails(m)
      PROVE  IInv'
    BY <1>4, ReceiveStep, ReturnMemoryStep, ReturnToNobodyStep, ReturnToAllocatedStep, ReturnFailsStep
<1>5. ASSUME NEW p \in Processes, TerminateProcess(p) \/ create_process(p) PROVE IInv'
    BY <1>5, TerminateStep, CreateStep
<1>6. CASE UNCHANGED vars
    BY <1>6 DEF vars, table, history, IInv, TypeOK, MessagesOK, ClientsOK, SharePanicExplained
<1> QED BY <1>1, <1>2, <1>3, <1>4, <1>5, <1>6 DEF Next

LEMMA SpecIInv ==
    ASSUME Accidents = {} PROVE Spec => []IInv
<1>1. IInv /\ [Next]_vars => IInv'
    BY NextIInv
<1> QED BY InitIInv, <1>1, PTL DEF Spec

LEMMA MappedOnce ==
    ASSUME IInv PROVE OneMapping
<1> SUFFICES ASSUME NEW page \in Pages \ astray PROVE Cardinality(MappedAt(page, {"valid"})) <= 1
    BY DEF OneMapping
<1>1. PICK depth \in Depths : ChainOK(tables, Lends(messages), leftover, astray, depth)
    BY DEF IInv, Good
<1>2. \A x \in MappedAt(page, {"valid"}) :
          x \in Places /\ EntryAt(tables, x).state = "valid" /\ Maps(tables, x, page)
    BY DEF MappedAt, EntryAt, Maps, Used
<1>3. \A x, y \in MappedAt(page, {"valid"}) : x = y
    BY <1>1, <1>2, OneValid
<1>4. CASE MappedAt(page, {"valid"}) = {}
    BY <1>4, FS_EmptySet
<1>5. ASSUME NEW x \in MappedAt(page, {"valid"}) PROVE Cardinality(MappedAt(page, {"valid"})) <= 1
  <2>1. MappedAt(page, {"valid"}) = {x}
      BY <1>3, <1>5
  <2> QED BY <2>1, FS_Singleton
<1> QED BY <1>4, <1>5

LEMMA OwnersKnown ==
    ASSUME IInv PROVE PagesAccounted
<1>1. \A page, x : x \in MappedAt(page, {"valid", "lent"}) <=> x \in Places /\ Maps(tables, x, page)
    BY DEF MappedAt, EntryAt, Maps, Used
<1>2. OwnersOK(processes, MEMORY_ALLOCATIONS, tables, Lends(messages), leftover, astray, leaked)
    BY DEF IInv, Good
<1> QED BY <1>1, <1>2 DEF PagesAccounted, OwnersOK

LEMMA LendsKnown ==
    ASSUME IInv PROVE LendsOnRecord
<1>0. /\ TypeOK /\ SharePanicExplained /\ LendsOK(processes, tables, Lends(messages), stranded, leftover)
      /\ RestOK(processes, tables, Lends(messages), stranded, leftover)
    BY DEF IInv, Good
<1> SUFFICES ASSUME NEW p \in processes, NEW v \in Virts, NEW lends, lends = LendsOf(p, v)
             PROVE  /\ tables[p][v].state = "lent" /\ <<p, v>> \notin stranded =>
                         \E m \in lends : lends = {m} /\ Recorded(m, tables[p][v])
                    /\ <<p, v>> \in stranded => tables[p][v].state = "lent" /\ lends = {}
                    /\ lends # {} => tables[p][v].state = "lent"
    BY <1>0, Zenon DEF LendsOnRecord
<1>1. \A m \in lends : /\ m \in Lends(messages) /\ Home(m) = <<p, v>> /\ m.client = p
                       /\ m.client \in processes
    BY DEF Lends, Home, LendsOf
<1>2. EntryAt(tables, <<p, v>>) = tables[p][v] /\ <<p, v>> \in Places
      /\ \A m : EntryAt(tables, Away(m)) = tables[m.server][m.saddr]
    BY <1>0 DEF EntryAt, Places, TypeOK, Away
<1>3. \A m \in lends : tables[p][v].state = "lent" /\ m.server \in processes
                       /\ tables[m.server][m.saddr].phys = tables[p][v].phys
    BY <1>0, <1>1, <1>2 DEF LendsOK
<1>4. ASSUME NEW m \in lends, tables[m.server][m.saddr].writable
      PROVE  m.kind = "MutableBorrow" /\ tables[p][v].writable
  <2>1. /\ EntryAt(tables, Away(m)).writable =>
              m.kind = "MutableBorrow" /\ EntryAt(tables, Home(m)).writable
      BY <1>0, <1>1, Zenon DEF LendsOK
  <2> QED BY <1>1, <1>2, <1>4, <2>1, Zenon
<1>5. \A m, n \in lends : m = n
    BY <1>0, <1>1 DEF LendsOK
<1>6. ASSUME tables[p][v].state = "lent", <<p, v>> \notin stranded PROVE \E m \in lends : lends = {m}
  <2>1. PICK m \in Lends(messages) : Home(m) = <<p, v>>
      BY <1>0, <1>2, <1>6 DEF RestOK
  <2>2. m \in lends
      BY <2>1 DEF Lends, Home, LendsOf
  <2> QED BY <1>5, <2>2
<1>7. lends # {} => \E m \in lends : TRUE
    OBVIOUS
<1>8. ASSUME <<p, v>> \in stranded PROVE tables[p][v].state = "lent" /\ lends = {}
  <2>1. tables[p][v].state = "lent"
      BY <1>0, <1>2, <1>8 DEF RestOK
  <2>2. \A m \in lends : <<p, v>> \notin stranded
      BY <1>0, <1>1 DEF LendsOK
  <2> QED BY <1>8, <2>1, <2>2
<1>9. \A m \in lends : Recorded(m, tables[p][v])
    BY <1>3, <1>4, Zenon DEF Recorded
<1> QED BY <1>3, <1>6, <1>7, <1>8, <1>9, Zenon

\* lend_memory, return_memory and send_memory: a page is mapped for use in one place at most,
\* whatever is lent, lent on, moved and returned, and whoever terminates.
THEOREM OneMappingAlways ==
    ASSUME Accidents = {} PROVE Spec => []OneMapping
<1>1. IInv => OneMapping
    BY MappedOnce
<1> QED BY SpecIInv, <1>1, PTL

\* claim_release_move: a free page is in no page table, and the owner of a page maps it unless
\* the page has leaked in one of the two ways there are.
THEOREM PagesAlwaysAccounted ==
    ASSUME Accidents = {} PROVE Spec => []PagesAccounted
<1>1. IInv => PagesAccounted
    BY OwnersKnown
<1> QED BY SpecIInv, <1>1, PTL

\* A lent page has one message that will bring it back, or it is stranded and has none; and
\* the borrower has no more rights to it than were lent.
THEOREM LendsAlwaysOnRecord ==
    ASSUME Accidents = {} PROVE Spec => []LendsOnRecord
<1>1. IInv => LendsOnRecord
    BY LendsKnown
<1> QED BY SpecIInv, <1>1, PTL

\* return_page_inner meets a page that "wasn't shared in destination space" only after the PID
\* of a dead client has been asked for again.
THEOREM SharePanicsExplained ==
    ASSUME Accidents = {} PROVE Spec => []SharePanicExplained
<1>1. IInv => SharePanicExplained
    BY DEF IInv
<1> QED BY SpecIInv, <1>1, PTL
=============================================================================
