----------------------------- MODULE DisplayBuffers -----------------------------
(***************************************************************************)
(* The buffers of the display driver of the sunxi SoCs: GEM objects with   *)
(* their pages (sunxi_drm_gem.c), the framebuffers made of them            *)
(* (sunxi_drm_fb.c, sunxi_drm_fbdev.c) and their export and import as      *)
(* dma-bufs (sunxi_drm_dmabuf.c).  An object is reached through handles of *)
(* clients, framebuffers, mappings, its dma-buf and calls that look it up; *)
(* each holds a reference, and the last one to go frees the pages.         *)
(***************************************************************************)
EXTENDS Naturals, FiniteSets

CONSTANTS
  Gems,            \* the objects
  Clients,
  None,
  MaxUses,         \* bound: framebuffers, mappings and file descriptors of an object each
  Kinds,           \* of memory: "contig" or "pages"
  Steps,           \* where the allocation of an object may fail
  HandleFails,     \* the handle of a new object may fail
  AnyMemory,       \* framebuffers are asked for with memory that is not contiguous
  FbdevExports,    \* the framebuffer device exports its buffer
  Remaps           \* a device maps its attachment again after it has unmapped it

VARIABLES
  gem,      \* object -> its references, memory, and whether it has a mmap offset
  handles,  \* object -> the clients with a handle
  fbs,      \* object -> the number of framebuffers that show it
  vmas,     \* object -> the number of its mappings
  buf,      \* object -> its dma-buf: live, file descriptors, clients that remember it
  att,      \* object -> the attachment of a device to its dma-buf
  foreign,  \* references on a dma-buf of another driver
  sync,     \* the object that a sync call has looked up, or None
  wrong     \* what went wrong

vars == <<gem, handles, fbs, vmas, buf, att, foreign, sync, wrong>>

Unused == [refs |-> 0, memory |-> "none", offset |-> FALSE]
NoBuf == [live |-> FALSE, fds |-> 0, members |-> {}]
Detached == [on |-> FALSE, dir |-> "none", mapped |-> FALSE, table |-> "none"]

Init ==
  /\ gem = [g \in Gems |-> Unused]
  /\ handles = [g \in Gems |-> {}]
  /\ fbs = [g \in Gems |-> 0] /\ vmas = fbs
  /\ buf = [g \in Gems |-> NoBuf] /\ att = [g \in Gems |-> Detached]
  /\ foreign = 0 /\ sync = None /\ wrong = {}

-----------------------------------------------------------------------------
(* References of the object g.  The last one calls sunxi_drm_gem_destroy,  *)
(* which gives the pages back, or detaches from the dma-buf of another     *)
(* driver and puts it.                                                     *)
Live(g) == gem[g].refs > 0
Ref(g) == [gem EXCEPT ![g].refs = @ + 1]
Unref(g) == IF gem[g].refs <= 1 THEN [gem EXCEPT ![g] = Unused] ELSE [gem EXCEPT ![g].refs = @ - 1]
PutForeign(g) == IF gem[g].refs = 1 /\ gem[g].memory = "foreign" THEN foreign - 1 ELSE foreign

Drop(g) == gem' = Unref(g) /\ foreign' = PutForeign(g)

(* The dma-buf of g loses a file descriptor, a member or its attachment:   *)
(* the last one calls sunxi_dmabuf_release.                                *)
Release(g, b) ==
  IF b.fds = 0 /\ b.members = {} /\ ~att[g].on
    THEN buf' = [buf EXCEPT ![g] = NoBuf] /\ Drop(g)
    ELSE buf' = [buf EXCEPT ![g] = b] /\ UNCHANGED <<gem, foreign>>

-----------------------------------------------------------------------------
(* sunxi_drm_gem_dumb_create().  What has been allocated goes back, but    *)
(* for the list of the pages that an object of single pages has got; an    *)
(* object whose handle fails is destroyed twice.                           *)
DumbCreate ==
  /\ \E g \in Gems, c \in Clients, k \in Kinds, fails \in Steps \cup {None} :
       /\ ~Live(g)
       /\ IF fails # None
            THEN /\ wrong' = IF k = "pages" /\ fails # "first page"
                               THEN wrong \cup {"list of pages"} ELSE wrong
                 /\ UNCHANGED <<gem, handles>>
            ELSE \E ok \in {TRUE, ~HandleFails} :
                   /\ gem' = IF ok THEN [gem EXCEPT ![g] = [refs |-> 1, memory |-> k, offset |-> FALSE]]
                                   ELSE gem
                   /\ handles' = IF ok THEN [handles EXCEPT ![g] = {c}] ELSE handles
                   /\ wrong' = IF ok THEN wrong ELSE wrong \cup {"destroyed twice"}
  /\ UNCHANGED <<fbs, vmas, buf, att, foreign, sync>>

(* A handle is deleted.  The core first lets the client forget a dma-buf   *)
(* it has exported or imported the object with.                            *)
DeleteHandle ==
  /\ \E g \in Gems : \E c \in handles[g] :
       LET b == [buf[g] EXCEPT !.members = @ \ {c}]
           dead == buf[g].live /\ b.fds = 0 /\ b.members = {} /\ ~att[g].on
           n == IF dead THEN 2 ELSE 1
       IN /\ handles' = [handles EXCEPT ![g] = @ \ {c}]
          /\ buf' = [buf EXCEPT ![g] = IF dead THEN NoBuf ELSE b]
          /\ gem' = IF gem[g].refs <= n THEN [gem EXCEPT ![g] = Unused]
                                        ELSE [gem EXCEPT ![g].refs = @ - n]
          /\ foreign' = IF gem[g].refs <= n /\ gem[g].memory = "foreign" THEN foreign - 1 ELSE foreign
  /\ UNCHANGED <<fbs, vmas, att, sync, wrong>>

(* sunxi_drm_gem_dumb_map_offset(): the offset is made once.               *)
MapOffset ==
  /\ \E g \in Gems : handles[g] # {} /\ ~gem[g].offset /\ gem' = [gem EXCEPT ![g].offset = TRUE]
  /\ UNCHANGED <<handles, fbs, vmas, buf, att, foreign, sync, wrong>>

(* sunxi_drm_gem_mmap(): a reference for the mapping; bad flags, which     *)
(* nobody refuses at creation, end it and free the offset.                 *)
Mmap ==
  /\ \E g \in Gems, badFlags \in BOOLEAN :
       /\ gem[g].offset /\ vmas[g] < MaxUses
       /\ gem' = IF badFlags THEN [gem EXCEPT ![g].offset = FALSE] ELSE Ref(g)
       /\ vmas' = IF badFlags THEN vmas ELSE [vmas EXCEPT ![g] = @ + 1]
  /\ UNCHANGED <<handles, fbs, buf, att, foreign, sync, wrong>>

Munmap ==
  /\ \E g \in Gems : vmas[g] > 0 /\ vmas' = [vmas EXCEPT ![g] = @ - 1] /\ Drop(g)
  /\ UNCHANGED <<handles, fbs, buf, att, sync, wrong>>

(* sunxi_user_fb_create() with one object or two: the references of the    *)
(* lookup become those of the framebuffer.  Memory that is not contiguous  *)
(* is refused, and the references are dropped of all four entries of an    *)
(* array of which only the first have been set.                            *)
FbCreate ==
  /\ \E c \in Clients : \E s \in SUBSET {g \in Gems : c \in handles[g]} :
       /\ s # {} /\ \A g \in s : fbs[g] < MaxUses
       /\ AnyMemory \/ \A g \in s : gem[g].memory # "pages"
       /\ IF \A g \in s : gem[g].memory # "pages"
            THEN /\ gem' = [g \in Gems |-> IF g \in s THEN [gem[g] EXCEPT !.refs = @ + 1] ELSE gem[g]]
                 /\ fbs' = [g \in Gems |-> IF g \in s THEN fbs[g] + 1 ELSE fbs[g]]
                 /\ UNCHANGED wrong
            ELSE wrong' = wrong \cup {"unset entries"} /\ UNCHANGED <<gem, fbs>>
  /\ UNCHANGED <<handles, vmas, buf, att, foreign, sync>>

FbDestroy ==
  /\ \E g \in Gems : fbs[g] > 0 /\ fbs' = [fbs EXCEPT ![g] = @ - 1] /\ Drop(g)
  /\ UNCHANGED <<handles, vmas, buf, att, sync, wrong>>

(* sunxi_drm_framebuffer_create_handle().                                  *)
GetFb ==
  /\ \E g \in Gems, c \in Clients :
       /\ fbs[g] > 0 /\ c \notin handles[g]
       /\ handles' = [handles EXCEPT ![g] = @ \cup {c}]
       /\ gem' = Ref(g)
  /\ UNCHANGED <<fbs, vmas, buf, att, foreign, sync, wrong>>

(* A dma-buf of an object: with a handle, through the core, which keeps    *)
(* the reference of the lookup for it and remembers the client; or of a    *)
(* framebuffer through the framebuffer device, which keeps none.  An       *)
(* object that came from another driver is exported as what it was.        *)
Ways == {"prime"} \cup (IF FbdevExports THEN {"fbdev"} ELSE {})

Export ==
  /\ \E g \in Gems, c \in Clients, way \in Ways :
       /\ buf[g].fds < MaxUses /\ gem[g].memory # "foreign"
       /\ IF way = "prime" THEN c \in handles[g] ELSE fbs[g] > 0
       /\ buf' = [buf EXCEPT ![g] = [live |-> TRUE, fds |-> @.fds + 1,
                    members |-> @.members \cup (IF way = "prime" /\ ~@.live THEN {c} ELSE {})]]
       /\ gem' = IF buf[g].live \/ way = "fbdev" THEN gem ELSE Ref(g)
  /\ UNCHANGED <<handles, fbs, vmas, att, foreign, sync, wrong>>

CloseFd ==
  /\ \E g \in Gems : buf[g].fds > 0 /\ Release(g, [buf[g] EXCEPT !.fds = @ - 1])
  /\ UNCHANGED <<handles, fbs, vmas, att, sync, wrong>>

(* sunxi_dmabuf_prime_import(): of an own object another handle, and the   *)
(* client remembers the dma-buf.                                           *)
ImportOwn ==
  /\ \E g \in Gems, c \in Clients :
       /\ buf[g].fds > 0 /\ c \notin handles[g]
       /\ gem' = Ref(g)
       /\ handles' = [handles EXCEPT ![g] = @ \cup {c}]
       /\ buf' = [buf EXCEPT ![g].members = @ \cup {c}]
  /\ UNCHANGED <<fbs, vmas, att, foreign, sync, wrong>>

(* Of a dma-buf of another driver: it is attached and mapped, and every    *)
(* failure undoes what came before it.                                     *)
ImportForeign ==
  /\ \E g \in Gems, c \in Clients, fails \in BOOLEAN :
       /\ ~Live(g)
       /\ gem' = IF fails THEN gem ELSE [gem EXCEPT ![g] = [refs |-> 1, memory |-> "foreign", offset |-> FALSE]]
       /\ handles' = IF fails THEN handles ELSE [handles EXCEPT ![g] = {c}]
       /\ foreign' = IF fails THEN foreign ELSE foreign + 1
  /\ UNCHANGED <<fbs, vmas, buf, att, sync, wrong>>

-----------------------------------------------------------------------------
(* A device attaches to the dma-buf, maps and unmaps it and detaches.  A   *)
(* mapping that is there already is returned again; the table of an unmap  *)
(* or of a failure is freed, but the attachment is still said to be mapped *)
(* and the table to have entries.                                          *)
Attach ==
  /\ \E g \in Gems : buf[g].fds > 0 /\ ~att[g].on /\ att' = [att EXCEPT ![g] = [Detached EXCEPT !.on = TRUE]]
  /\ UNCHANGED <<gem, handles, fbs, vmas, buf, foreign, sync, wrong>>

MapDmaBuf ==
  /\ \E g \in Gems, dir \in {"to device", "both"}, fails \in BOOLEAN :
       LET a == att[g] again == a.mapped /\ a.dir = dir IN
       /\ a.on /\ (a.table = "freed" => Remaps)
       /\ att' = IF again THEN att
                 ELSE [att EXCEPT ![g] = [on |-> TRUE, dir |-> dir, mapped |-> TRUE,
                                          table |-> IF fails THEN "freed" ELSE
                                                    IF a.table = "none" THEN "ok" ELSE a.table]]
       /\ wrong' = wrong \cup (IF a.table = "freed" THEN {"freed table"} ELSE {})
                         \cup (IF again \/ fails \/ a.table # "none" \/ Live(g) THEN {} ELSE {"freed pages"})
  /\ UNCHANGED <<gem, handles, fbs, vmas, buf, foreign, sync>>

UnmapDmaBuf ==
  /\ \E g \in Gems : att[g].table = "ok" /\ att' = [att EXCEPT ![g].table = "freed"]
  /\ UNCHANGED <<gem, handles, fbs, vmas, buf, foreign, sync, wrong>>

Detach ==
  /\ \E g \in Gems :
       LET b == buf[g] IN
       /\ att[g].on /\ att[g].table # "ok"
       /\ att' = [att EXCEPT ![g] = Detached]
       /\ IF b.fds = 0 /\ b.members = {}
            THEN buf' = [buf EXCEPT ![g] = NoBuf] /\ Drop(g)
            ELSE UNCHANGED <<buf, gem, foreign>>
  /\ UNCHANGED <<handles, fbs, vmas, sync, wrong>>

(* sunxi_drm_gem_sync_ioctl().                                             *)
SyncStart ==
  /\ sync = None
  /\ \E g \in Gems : handles[g] # {} /\ sync' = g /\ gem' = Ref(g)
  /\ UNCHANGED <<handles, fbs, vmas, buf, att, foreign, wrong>>

SyncEnd ==
  /\ sync # None /\ Drop(sync) /\ sync' = None
  /\ wrong' = IF Live(sync) THEN wrong ELSE wrong \cup {"freed pages"}
  /\ UNCHANGED <<handles, fbs, vmas, buf, att>>

Next == \/ DumbCreate \/ DeleteHandle \/ MapOffset \/ Mmap \/ Munmap \/ FbCreate \/ FbDestroy
        \/ GetFb \/ Export \/ CloseFd \/ ImportOwn \/ ImportForeign \/ Attach \/ MapDmaBuf
        \/ UnmapDmaBuf \/ Detach \/ SyncStart \/ SyncEnd

Spec == Init /\ [][Next]_vars

-----------------------------------------------------------------------------
(* An object has a reference for each thing it is reached through, so its  *)
(* pages live as long as one of them is left and are freed with the last;  *)
(* a dma-buf lives as long as somebody has it (sunxi_drm_gem.c 266-290,    *)
(* sunxi_drm_dmabuf.c 125-133); and a device never gets a table that was   *)
(* freed (47-116).                                                         *)
Holders(g) ==
  Cardinality(handles[g]) + fbs[g] + vmas[g] + (IF buf[g].live THEN 1 ELSE 0)
  + (IF sync = g THEN 1 ELSE 0)

BuffersSound ==
  /\ wrong = {}
  /\ \A g \in Gems :
       /\ gem[g].refs = Holders(g)
       /\ buf[g].live <=> buf[g].fds > 0 \/ buf[g].members # {} \/ att[g].on
  /\ foreign = Cardinality({g \in Gems : gem[g].memory = "foreign"})
=============================================================================
