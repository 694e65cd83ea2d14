----------------------------- MODULE RestApiProofs -----------------------------
(***************************************************************************)
(* Theorems about the administrative endpoints of RestApi, for any number  *)
(* of calls that overlap in any order.                                     *)
(***************************************************************************)
EXTENDS RestApi, TLAPS

-----------------------------------------------------------------------------
(* What every sequence of storage operations keeps, for every value of the *)
(* constants of ChannelStore.                                              *)

(* A registered object knows its id, so no object is registered twice.     *)
Registered == \A c \in Channels : live[c] # NoObject => home[live[c]] = c

(* No profile other than those of the start and of the REST API. *)
Profiled ==
    (\A o \in Objects, a \in Agents : BootMembers[o][a] \in Profiles \cup {NoMember})
      => \A o \in Objects, a \in Agents : members[o][a] \in Profiles \cup {NoMember}

StoreInv == StoreTypeOK /\ Registered /\ Profiled

LEMMA NoMemberIsNoProfile == NoMember \in Slot /\ NoMember \notin Member
BY DEF NoMember, Slot, Member, Roles

LEMMA InitStoreInv == StoreInit => StoreInv
<1> SUFFICES ASSUME StoreInit PROVE StoreInv
  OBVIOUS
<1>1. StoreTypeOK
  <2>1. live \in [Channels -> Objects \cup {NoObject}]
          /\ members \in [Objects -> [Agents -> Slot]]
    BY StoreAssumption DEF StoreInit
  <2>2. home \in [Objects -> Channels \cup {NoChannel}]
    BY DEF StoreInit
  <2>3. history \in [Channels -> Seq(Record)] /\ hooks \in [Channels -> SUBSET Hooks]
    BY DEF StoreInit
  <2> QED
    BY <2>1, <2>2, <2>3 DEF StoreTypeOK
<1>2. ASSUME NEW c \in Channels, live[c] # NoObject PROVE home[live[c]] = c
  <2> DEFINE d == CHOOSE x \in Channels : Boot[x] = Boot[c]
  <2>1. d \in Channels /\ Boot[d] = Boot[c]
    OBVIOUS
  <2>2. Boot[c] \in Objects /\ Boot[c] # NoObject /\ live[c] = Boot[c]
    BY <1>2, StoreAssumption DEF StoreInit
  <2>3. d = c
    BY <2>1, <2>2, StoreAssumption
  <2>4. home[Boot[c]] = d
    BY <2>2 DEF StoreInit
  <2> QED
    BY <2>2, <2>3, <2>4
<1>3. Profiled
  BY DEF StoreInit, Profiled
<1> QED
  BY <1>1, <1>2, <1>3 DEF StoreInv, Registered

(* What a single operation changes, one lemma for each.                    *)
LEMMA CreateChannelStoreInv ==
    ASSUME StoreInv, NEW c \in Channels, NEW o \in Objects, CreateChannel(c, o)
    PROVE  StoreInv'
<1> USE DEF StoreInv, StoreTypeOK, CreateChannel
<1>1. StoreTypeOK'
  BY NoMemberIsNoProfile
<1>2. Registered'
  BY StoreAssumption DEF Registered
<1>3. Profiled'
  BY DEF Profiled
<1> QED
  BY <1>1, <1>2, <1>3

LEMMA SaveChannelStoreInv ==
    ASSUME StoreInv, NEW o \in Objects, SaveChannel(o)
    PROVE  StoreInv'
<1> USE DEF StoreInv, StoreTypeOK, SaveChannel
<1>1. StoreTypeOK'
  OBVIOUS
<1>2. Registered'
  BY DEF Registered
<1> QED
  BY <1>1, <1>2 DEF Profiled

LEMMA DeleteChannelStoreInv ==
    ASSUME StoreInv, NEW c \in Channels, DeleteChannel(c)
    PROVE  StoreInv'
<1> USE DEF StoreInv, StoreTypeOK, DeleteChannel
<1>1. StoreTypeOK'
  OBVIOUS
<1>2. Registered'
  BY DEF Registered
<1> QED
  BY <1>1, <1>2 DEF Profiled

(* A slot of some object is filled or emptied.                             *)
LEMMA SetMemberStoreInv ==
    ASSUME StoreInv, NEW o \in Objects, NEW a \in Agents,
           NEW m \in Profiles \cup {NoMember},
           members' = [members EXCEPT ![o][a] = m],
           UNCHANGED <<live, home, history, hooks>>
    PROVE  StoreInv'
<1> USE DEF StoreInv, StoreTypeOK
<1>1. m \in Slot
  BY StoreAssumption, NoMemberIsNoProfile DEF Slot
<1>2. StoreTypeOK'
  BY <1>1
<1>3. Registered'
  BY DEF Registered
<1>4. Profiled'
  BY DEF Profiled
<1> QED
  BY <1>2, <1>3, <1>4

LEMMA WebhookStoreInv ==
    ASSUME StoreInv, NEW c \in Channels, NEW h \in Hooks,
           SaveWebhook(c, h) \/ DeleteWebhook(c, h)
    PROVE  StoreInv'
<1> USE DEF StoreInv, StoreTypeOK, SaveWebhook, DeleteWebhook
<1>1. hooks' \in [Channels -> SUBSET Hooks]
  <2>1. PICK H \in SUBSET Hooks : hooks' = [hooks EXCEPT ![c] = H]
    <3>1. hooks[c] \cup {h} \in SUBSET Hooks /\ hooks[c] \ {h} \in SUBSET Hooks
      OBVIOUS
    <3> QED
      BY <3>1
  <2> QED
    BY <2>1
<1>2. UNCHANGED <<live, home, members, history>>
  OBVIOUS
<1> QED
  BY <1>1, <1>2 DEF Registered, Profiled

(* Whatever the REST API does, the store stays well formed and a           *)
(* registered object knows its id.                                         *)
LEMMA StoreOperationStoreInv ==
    ASSUME StoreInv, StoreOperation
    PROVE  StoreInv'
<1>1. ASSUME NEW c \in Channels, NEW o \in Objects, CreateChannel(c, o)
      PROVE  StoreInv'
  BY <1>1, CreateChannelStoreInv
<1>2. ASSUME NEW o \in Objects, SaveChannel(o) PROVE StoreInv'
  BY <1>2, SaveChannelStoreInv
<1>3. ASSUME NEW c \in Channels, DeleteChannel(c) PROVE StoreInv'
  BY <1>3, DeleteChannelStoreInv
<1>4. ASSUME NEW c \in Channels, NEW a \in Agents, NEW m \in Profiles,
             AddMember(c, a, m)
      PROVE  StoreInv'
  <2>1. live[c] \in Objects
    BY <1>4 DEF AddMember, StoreInv, StoreTypeOK
  <2> QED
    BY <1>4, <2>1, SetMemberStoreInv DEF AddMember
<1>5. ASSUME NEW c \in Channels, NEW a \in Agents, RemoveMember(c, a)
      PROVE  StoreInv'
  <2>1. live[c] \in Objects
    BY <1>5 DEF RemoveMember, StoreInv, StoreTypeOK
  <2> QED
    BY <1>5, <2>1, SetMemberStoreInv DEF RemoveMember
<1>6. ASSUME NEW o \in Objects, NEW a \in Agents, NEW m \in Profiles,
             PatchMember(o, a, m)
      PROVE  StoreInv'
  BY <1>6, SetMemberStoreInv DEF PatchMember
<1>7. ASSUME NEW c \in Channels, NEW h \in Hooks,
             SaveWebhook(c, h) \/ DeleteWebhook(c, h)
      PROVE  StoreInv'
  BY <1>7, WebhookStoreInv
<1> QED
  BY <1>1, <1>2, <1>3, <1>4, <1>5, <1>6, <1>7 DEF StoreOperation

(* An object that was constructed keeps its id for good, registered or not. *)
LEMMA ConstructedStays ==
    ASSUME StoreInv, StoreOperation, NEW o \in Objects, home[o] # NoChannel
    PROVE  home'[o] = home[o]
BY DEF StoreInv, StoreTypeOK, StoreOperation, CreateChannel, SaveChannel,
   DeleteChannel, AddMember, RemoveMember, PatchMember, SaveWebhook, DeleteWebhook

(* The store stays well formed under any sequence of operations, and an id *)
(* names only an object that was constructed for it (memory.py).           *)
THEOREM StoreInvariant == StoreInit /\ [][StoreOperation]_storeVars => []StoreInv
<1>1. StoreInv /\ [StoreOperation]_storeVars => StoreInv'
  <2>1. ASSUME StoreInv, UNCHANGED storeVars PROVE StoreInv'
    BY <2>1 DEF storeVars, StoreInv, StoreTypeOK, Registered, Profiled
  <2> QED
    BY <2>1, StoreOperationStoreInv
<1> QED
  BY <1>1, InitStoreInv, PTL

-----------------------------------------------------------------------------
(* The endpoints.                                                          *)

Finders == {"patchChannel", "addMember", "addHook", "patchMember"}

(* What a call that awaits its body knows: the id it was given, and an     *)
(* object that was registered under that id.                               *)
KnowsChannel ==
    \A q \in Calls :
       /\ at[q] = "reading" => op[q] \in Operations /\ cid[q] \in Channels
       /\ op[q] \in Finders => held[q] \in Objects /\ home[held[q]] = cid[q]
       /\ op[q] = "patchMember" => aid[q] \in Agents

RestInv == TypeOK /\ StoreInv /\ KnowsChannel /\ AtomicUnlessStale

(* The parts of TypeOK. *)
Entry == [exists : BOOLEAN, members : [Agents -> Slot], hooks : SUBSET Hooks]

CallsOK ==
    /\ at \in [Calls -> {"idle", "reading", "ended"}]
    /\ op \in [Calls -> Operations \cup {"none"}]
    /\ cid \in [Calls -> Channels \cup {NoChannel}]
    /\ aid \in [Calls -> Agents \cup {NoAgent}]
    /\ held \in [Calls -> Objects \cup {NoObject}]
    /\ attached \in [Calls -> BOOLEAN]
    /\ reply \in [Calls -> {"none", "ok", "error"}]
    /\ \A q \in Calls : /\ at[q] = "reading" <=> op[q] # "none"
                        /\ at[q] = "ended" <=> reply[q] # "none"

AttachedOK ==
    \A q \in Calls :
       attached[q] => op[q] = "patchMember" /\ members[held[q]][aid[q]] # NoMember

BookOK == book \in [Channels -> Entry] /\ raced \in BOOLEAN

LEMMA TypeParts == TypeOK <=> StoreTypeOK /\ CallsOK /\ AttachedOK /\ BookOK
BY DEF TypeOK, CallsOK, AttachedOK, BookOK, Entry

-----------------------------------------------------------------------------
(* What the operations of the store change of what a reader sees.          *)

LEMMA CreateIsSeen ==
    ASSUME StoreInv, NEW c \in Channels, NEW o \in Objects, CreateChannel(c, o)
    PROVE  /\ Seen(c)' = [exists |-> TRUE, members |-> [a \in Agents |-> NoMember],
                          hooks |-> Seen(c).hooks]
           /\ \A d \in Channels \ {c} : Seen(d)' = Seen(d)
<1> USE StoreAssumption
    DEF StoreInv, StoreTypeOK, Registered, CreateChannel, Seen, Unregistered
<1>1. Seen(c)' = [exists |-> TRUE, members |-> [a \in Agents |-> NoMember],
                  hooks |-> Seen(c).hooks]
  OBVIOUS
<1>2. ASSUME NEW d \in Channels \ {c} PROVE Seen(d)' = Seen(d)
  <2>1. live'[d] = live[d] /\ (live[d] # NoObject => live[d] \in Objects \ {o})
    OBVIOUS
  <2> QED
    BY <2>1
<1> QED
  BY <1>1, <1>2

LEMMA DeleteIsSeen ==
    ASSUME StoreInv, NEW c \in Channels, DeleteChannel(c)
    PROVE  /\ Seen(c)' = Unregistered
           /\ \A d \in Channels \ {c} : Seen(d)' = Seen(d)
BY DEF StoreInv, StoreTypeOK, DeleteChannel, Seen, Unregistered

(* A book entry with one member or its webhooks replaced.                  *)
WithMember(entry, a, m) == [entry EXCEPT !.members[a] = m]
WithHooks(entry, H) == [entry EXCEPT !.hooks = H]

LEMMA MemberIsSeen ==
    ASSUME StoreInv, NEW c \in Channels, live[c] # NoObject,
           NEW a \in Agents, NEW m, members' = [members EXCEPT ![live[c]][a] = m],
           UNCHANGED <<live, home, history, hooks>>
    PROVE  /\ Seen(c)' = WithMember(Seen(c), a, m)
           /\ \A d \in Channels \ {c} : Seen(d)' = Seen(d)
<1> USE DEF StoreInv, StoreTypeOK, Registered, Seen, Unregistered
<1>1. live[c] \in Objects
  OBVIOUS
<1>2. Seen(c)' = WithMember(Seen(c), a, m)
  <2> DEFINE e == TRUE
  <2>1. Seen(c) = [exists |-> e, members |-> members[live[c]], hooks |-> hooks[c]]
    OBVIOUS
  <2>2. Seen(c)' = [exists |-> e, members |-> [members[live[c]] EXCEPT ![a] = m],
                    hooks |-> hooks[c]]
    BY <1>1
  <2> HIDE DEF e, StoreInv, StoreTypeOK, Registered, Seen, Unregistered
  <2> QED
    BY <2>1, <2>2 DEF WithMember
<1>3. ASSUME NEW d \in Channels \ {c} PROVE Seen(d)' = Seen(d)
  <2>1. live[d] # NoObject => live[d] \in Objects \ {live[c]}
    OBVIOUS
  <2> QED
    BY <1>1, <2>1
<1> QED
  BY <1>2, <1>3

LEMMA WebhookIsSeen ==
    ASSUME StoreInv, NEW c \in Channels, NEW H,
           hooks' = [hooks EXCEPT ![c] = H],
           UNCHANGED <<live, home, members, history>>
    PROVE  /\ Seen(c)' = WithHooks(Seen(c), H)
           /\ Seen(c).hooks = hooks[c]
           /\ \A d \in Channels \ {c} : Seen(d)' = Seen(d)
<1> USE DEF StoreInv, StoreTypeOK, Seen, Unregistered
<1>1. Seen(c)' = WithHooks(Seen(c), H)
  <2> DEFINE e == live[c] # NoObject
             ms == IF live[c] = NoObject THEN [a \in Agents |-> NoMember]
                   ELSE members[live[c]]
  <2>1. Seen(c) = [exists |-> e, members |-> ms, hooks |-> hooks[c]]
    OBVIOUS
  <2>2. Seen(c)' = [exists |-> e, members |-> ms, hooks |-> H]
    OBVIOUS
  <2> HIDE DEF Seen, e, ms
  <2>3. WithHooks([exists |-> e, members |-> ms, hooks |-> hooks[c]], H)
          = [exists |-> e, members |-> ms, hooks |-> H]
    BY DEF WithHooks
  <2> QED
    BY <2>1, <2>2, <2>3
<1>2. Seen(c).hooks = hooks[c]
  OBVIOUS
<1>3. ASSUME NEW d \in Channels \ {c} PROVE Seen(d)' = Seen(d)
  OBVIOUS
<1> QED
  BY <1>1, <1>2, <1>3

(* A reply that is entered in the book keeps it true.                      *)
LEMMA NoteKeepsBook ==
    ASSUME BookOK, AtomicUnlessStale, NEW c \in Channels, NEW entry,
           NEW stale \in BOOLEAN, Note(c, entry, stale),
           ~raced /\ ~stale => /\ entry \in Entry
                               /\ Seen(c)' = entry
                               /\ \A d \in Channels \ {c} : Seen(d)' = Seen(d)
    PROVE  BookOK' /\ AtomicUnlessStale'
<1>1. BookOK'
  BY DEF BookOK, Note
<1>2. AtomicUnlessStale'
  BY DEF BookOK, Note, AtomicUnlessStale
<1> QED
  BY <1>1, <1>2
(* No object that a call holds is constructed anew.                        *)
HomesStay == \A o \in Objects : home[o] \in Channels => home'[o] = home[o]

(* What the steps of a call change of what it knows: it begins to await    *)
(* its body, is answered at once, or is answered after the body.           *)
LEMMA AskedCalls ==
    ASSUME CallsOK, KnowsChannel, NEW q \in Calls, NEW operation \in Operations,
           NEW c \in Channels, NEW a \in Agents \cup {NoAgent},
           NEW o \in Objects \cup {NoObject},
           Asks(q, operation, c), attached' \in [Calls -> BOOLEAN],
           aid' = [aid EXCEPT ![q] = a], held' = [held EXCEPT ![q] = o],
           operation \in Finders => o \in Objects /\ home[o] = c,
           operation = "patchMember" => a \in Agents
    PROVE  CallsOK' /\ KnowsChannel'
<1> USE DEF CallsOK, Asks, storeVars
<1>1. operation # "none"
  BY DEF Operations
<1>2. CallsOK'
  BY <1>1
<1>3. KnowsChannel'
  BY <1>1 DEF KnowsChannel
<1> QED
  BY <1>2, <1>3

LEMMA AnsweredCalls ==
    ASSUME CallsOK, KnowsChannel, HomesStay, NEW q \in Calls,
           NEW s \in {"ok", "error"}, at[q] = "idle", Ends(q, s),
           UNCHANGED <<op, cid, aid, held>>, attached' \in [Calls -> BOOLEAN]
    PROVE  CallsOK' /\ KnowsChannel'
<1> USE DEF CallsOK, Ends
<1>1. CallsOK'
  OBVIOUS
<1>2. KnowsChannel'
  BY DEF KnowsChannel, HomesStay, Finders
<1> QED
  BY <1>1, <1>2

LEMMA ResumedCalls ==
    ASSUME CallsOK, KnowsChannel, HomesStay, NEW q \in Calls,
           NEW s \in {"ok", "error"}, NEW operation, Resumes(q, operation),
           Ends(q, s), attached' \in [Calls -> BOOLEAN]
    PROVE  /\ CallsOK' /\ KnowsChannel'
           /\ \A p \in Calls \ {q} :
                 op'[p] = op[p] /\ aid'[p] = aid[p] /\ held'[p] = held[p]
<1> USE DEF CallsOK, Ends, Resumes
<1>1. CallsOK'
  OBVIOUS
<1>2. KnowsChannel'
  BY DEF KnowsChannel, HomesStay, Finders
<1>3. \A p \in Calls \ {q} : op'[p] = op[p] /\ aid'[p] = aid[p] /\ held'[p] = held[p]
  OBVIOUS
<1> QED
  BY <1>1, <1>2, <1>3

LEMMA EntryTypes ==
    /\ Unregistered \in Entry
    /\ \A H \in SUBSET Hooks :
          [exists |-> TRUE, members |-> [a \in Agents |-> NoMember], hooks |-> H] \in Entry
    /\ \A e \in Entry, a \in Agents, m \in Slot : WithMember(e, a, m) \in Entry
    /\ \A e \in Entry, H \in SUBSET Hooks : WithHooks(e, H) \in Entry
<1> USE NoMemberIsNoProfile DEF Entry
<1>1. Unregistered \in Entry
  BY DEF Unregistered
<1>2. ASSUME NEW H \in SUBSET Hooks
      PROVE  [exists |-> TRUE, members |-> [a \in Agents |-> NoMember], hooks |-> H]
               \in Entry
  OBVIOUS
<1>3. ASSUME NEW e \in Entry, NEW a \in Agents, NEW m \in Slot
      PROVE  WithMember(e, a, m) \in Entry
  BY DEF WithMember
<1>4. ASSUME NEW e \in Entry, NEW H \in SUBSET Hooks PROVE WithHooks(e, H) \in Entry
  BY DEF WithHooks
<1> QED
  BY <1>1, <1>2, <1>3, <1>4
-----------------------------------------------------------------------------
LEMMA InitRestInv == Init => RestInv
<1> SUFFICES ASSUME Init PROVE RestInv
  OBVIOUS
<1>1. StoreInv
  BY InitStoreInv DEF Init
<1>2. CallsOK /\ AttachedOK /\ KnowsChannel
  BY DEF Init, CallsOK, AttachedOK, KnowsChannel, Finders
<1>3. BookOK
  <2>1. \A c \in Channels : book[c] \in Entry
    BY <1>1, EntryTypes DEF Init, Entry, StoreInv, StoreTypeOK
  <2> QED
    BY <2>1 DEF Init, BookOK
<1>4. AtomicUnlessStale
  <2> SUFFICES ASSUME NEW c \in Channels PROVE book[c] = Seen(c)
    BY DEF AtomicUnlessStale
  <2>1. hooks[c] = {}
    BY DEF Init, StoreInit
  <2> QED
    BY <2>1 DEF Init, Seen, Unregistered
<1> QED
  BY <1>1, <1>2, <1>3, <1>4, TypeParts DEF RestInv, StoreInv

(* A step keeps the invariant, and makes at most one operation of the      *)
(* store.                                                                  *)
Kept == RestInv' /\ [StoreOperation]_storeVars

LEMMA KeptParts ==
    ASSUME StoreInv, [StoreOperation]_storeVars,
           HomesStay => CallsOK' /\ KnowsChannel',
           AttachedOK', BookOK', AtomicUnlessStale'
    PROVE  Kept
<1>1. StoreInv'
  <2>1. ASSUME UNCHANGED storeVars PROVE StoreInv'
    BY <2>1 DEF storeVars, StoreInv, StoreTypeOK, Registered, Profiled
  <2> QED
    BY <2>1, StoreOperationStoreInv
<1>2. HomesStay
  BY ConstructedStays, StoreAssumption DEF HomesStay, storeVars
<1>3. TypeOK' <=> (StoreTypeOK /\ CallsOK /\ AttachedOK /\ BookOK)'
  BY TypeParts, PTL
<1> QED
  BY <1>1, <1>2, <1>3 DEF Kept, RestInv, StoreInv

(* Without a reply the book and the store stay. *)
LEMMA SameBook ==
    ASSUME BookOK, AtomicUnlessStale, UNCHANGED <<storeVars, book, raced>>
    PROVE  BookOK' /\ AtomicUnlessStale'
BY DEF BookOK, AtomicUnlessStale, Seen, storeVars

LEMMA FindsKept ==
    ASSUME RestInv, NEW q \in Calls, NEW operation \in Operations,
           NEW c \in Channels, NEW a \in Agents, Finds(q, operation, c, a)
    PROVE  Kept
<1>1. StoreInv /\ CallsOK /\ KnowsChannel /\ AttachedOK /\ BookOK
        /\ AtomicUnlessStale
  BY TypeParts DEF RestInv
<1>2. /\ Asks(q, operation, c)
      /\ live[c] # NoObject
      /\ operation = "patchMember" => members[live[c]][a] # NoMember
      /\ aid' = [aid EXCEPT ![q] = IF operation = "patchMember" THEN a ELSE NoAgent]
      /\ held' = [held EXCEPT ![q] = live[c]]
      /\ attached' = [attached EXCEPT ![q] = operation = "patchMember"]
  BY DEF Finds, ChannelById
<1>3. UNCHANGED storeVars
  BY <1>2 DEF Asks
<1>4. live[c] \in Objects /\ home[live[c]] = c
  BY <1>1, <1>2 DEF StoreInv, StoreTypeOK, Registered
<1>5. attached' \in [Calls -> BOOLEAN]
  BY <1>1, <1>2 DEF CallsOK
<1>6. CallsOK' /\ KnowsChannel'
  <2> DEFINE b == IF operation = "patchMember" THEN a ELSE NoAgent
  <2>1. b \in Agents \cup {NoAgent} /\ (operation = "patchMember" => b \in Agents)
    OBVIOUS
  <2>2. aid' = [aid EXCEPT ![q] = b]
    BY <1>2
  <2> HIDE DEF b
  <2> QED
    BY <1>1, <1>2, <1>4, <1>5, <2>1, <2>2, AskedCalls
<1>7. AttachedOK'
  BY <1>1, <1>2, <1>3 DEF AttachedOK, CallsOK, Asks, storeVars
<1>8. BookOK' /\ AtomicUnlessStale'
  BY <1>1, <1>2, SameBook DEF Asks
<1> QED
  BY <1>1, <1>3, <1>6, <1>7, <1>8, KeptParts

LEMMA FindsNothingKept ==
    ASSUME RestInv, NEW q \in Calls, NEW operation \in Operations,
           NEW c \in Channels, NEW a \in Agents, FindsNothing(q, operation, c, a)
    PROVE  Kept
<1>1. StoreInv /\ CallsOK /\ KnowsChannel /\ AttachedOK /\ BookOK
        /\ AtomicUnlessStale
  BY TypeParts DEF RestInv
<1>2. /\ at[q] = "idle" /\ Ends(q, "error")
      /\ UNCHANGED <<storeVars, op, cid, aid, held, attached, book, raced>>
  BY DEF FindsNothing
<1>3. attached' \in [Calls -> BOOLEAN]
  BY <1>1, <1>2 DEF CallsOK
<1>4. HomesStay => CallsOK' /\ KnowsChannel'
  BY <1>1, <1>2, <1>3, AnsweredCalls
<1>5. AttachedOK'
  BY <1>1, <1>2 DEF AttachedOK, storeVars
<1>6. BookOK' /\ AtomicUnlessStale'
  BY <1>1, <1>2, SameBook
<1> QED
  BY <1>1, <1>2, <1>4, <1>5, <1>6, KeptParts

LEMMA AsksToCreateKept ==
    ASSUME RestInv, NEW q \in Calls, NEW c \in Channels, AsksToCreate(q, c)
    PROVE  Kept
<1>1. StoreInv /\ CallsOK /\ KnowsChannel /\ AttachedOK /\ BookOK
        /\ AtomicUnlessStale
  BY TypeParts DEF RestInv
<1>2. Asks(q, "create", c) /\ UNCHANGED <<aid, held, attached>>
  BY DEF AsksToCreate
<1>3. UNCHANGED storeVars
  BY <1>2 DEF Asks
<1>4. CallsOK' /\ KnowsChannel'
  BY <1>1, <1>2, <1>3 DEF CallsOK, KnowsChannel, Finders, Operations, Asks, storeVars
<1>5. AttachedOK'
  <2>1. ~attached[q]
    BY <1>1, <1>2 DEF AttachedOK, CallsOK, Asks
  <2> QED
    BY <1>1, <1>2, <1>3, <2>1 DEF AttachedOK, CallsOK, Asks, storeVars
<1>6. BookOK' /\ AtomicUnlessStale'
  BY <1>1, <1>2, SameBook DEF Asks
<1> QED
  BY <1>1, <1>3, <1>4, <1>5, <1>6, KeptParts
LEMMA DeleteKept ==
    ASSUME RestInv, NEW q \in Calls, NEW c \in Channels, Delete(q, c)
    PROVE  Kept
<1>1. StoreInv /\ CallsOK /\ KnowsChannel /\ AttachedOK /\ BookOK
        /\ AtomicUnlessStale
  BY TypeParts DEF RestInv
<1>2. /\ at[q] = "idle" /\ DeleteChannel(c) /\ Ends(q, "ok")
      /\ Note(c, Unregistered, FALSE)
      /\ UNCHANGED <<op, cid, aid, held, attached>>
  BY DEF Delete
<1>3. StoreOperation
  BY <1>2 DEF StoreOperation
<1>4. HomesStay => CallsOK' /\ KnowsChannel'
  <2>1. attached' \in [Calls -> BOOLEAN]
    BY <1>1, <1>2 DEF CallsOK
  <2> QED
    BY <1>1, <1>2, <2>1, AnsweredCalls
<1>5. AttachedOK'
  BY <1>1, <1>2 DEF AttachedOK, DeleteChannel
<1>6. BookOK' /\ AtomicUnlessStale'
  BY <1>1, <1>2, DeleteIsSeen, EntryTypes, NoteKeepsBook
<1> QED
  BY <1>1, <1>3, <1>4, <1>5, <1>6, KeptParts

LEMMA RemoveKept ==
    ASSUME RestInv, NEW q \in Calls, NEW c \in Channels, NEW a \in Agents,
           Remove(q, c, a)
    PROVE  Kept
<1>1. StoreInv /\ CallsOK /\ KnowsChannel /\ AttachedOK /\ BookOK
        /\ AtomicUnlessStale
  BY TypeParts DEF RestInv
<1>2. /\ at[q] = "idle" /\ RemoveMember(c, a) /\ Ends(q, "ok")
      /\ Detach(live[c], a)
      /\ Note(c, WithMember(book[c], a, NoMember), FALSE)
      /\ UNCHANGED <<op, cid, aid, held>>
  BY DEF Remove, WithMember
<1>3. StoreOperation
  BY <1>2 DEF StoreOperation
<1>4. /\ live[c] # NoObject /\ live[c] \in Objects
      /\ members' = [members EXCEPT ![live[c]][a] = NoMember]
      /\ UNCHANGED <<live, home, history, hooks>>
  BY <1>1, <1>2 DEF RemoveMember, StoreInv, StoreTypeOK
<1>5. HomesStay => CallsOK' /\ KnowsChannel'
  <2>1. attached' \in [Calls -> BOOLEAN]
    BY <1>1, <1>2 DEF CallsOK, Detach
  <2> QED
    BY <1>1, <1>2, <2>1, AnsweredCalls
<1>6. AttachedOK'
  <2> SUFFICES ASSUME NEW p \in Calls, attached'[p]
               PROVE  op'[p] = "patchMember" /\ members'[held'[p]][aid'[p]] # NoMember
    BY DEF AttachedOK
  <2>1. attached[p] /\ ~(held[p] = live[c] /\ aid[p] = a)
    BY <1>2 DEF Detach
  <2>2. op[p] = "patchMember" /\ members[held[p]][aid[p]] # NoMember
    BY <1>1, <2>1 DEF AttachedOK
  <2>3. held[p] \in Objects /\ aid[p] \in Agents
    BY <1>1, <2>2 DEF KnowsChannel, Finders
  <2> QED
    BY <1>1, <1>2, <1>4, <2>1, <2>2, <2>3 DEF StoreInv, StoreTypeOK
<1>7. BookOK' /\ AtomicUnlessStale'
  <2>1. WithMember(book[c], a, NoMember) \in Entry
    BY <1>1, EntryTypes, NoMemberIsNoProfile DEF BookOK
  <2>2. /\ Seen(c)' = WithMember(Seen(c), a, NoMember)
        /\ \A d \in Channels \ {c} : Seen(d)' = Seen(d)
    BY <1>1, <1>4, MemberIsSeen
  <2>3. ~raced => book[c] = Seen(c)
    BY <1>1 DEF AtomicUnlessStale
  <2> QED
    BY <1>1, <1>2, <2>1, <2>2, <2>3, NoteKeepsBook
<1> QED
  BY <1>1, <1>3, <1>5, <1>6, <1>7, KeptParts

LEMMA RemoveHookKept ==
    ASSUME RestInv, NEW q \in Calls, NEW c \in Channels, NEW h \in Hooks,
           RemoveHook(q, c, h)
    PROVE  Kept
<1>1. StoreInv /\ CallsOK /\ KnowsChannel /\ AttachedOK /\ BookOK
        /\ AtomicUnlessStale
  BY TypeParts DEF RestInv
<1>2. /\ at[q] = "idle" /\ DeleteWebhook(c, h) /\ Ends(q, "ok")
      /\ Note(c, WithHooks(book[c], book[c].hooks \ {h}), FALSE)
      /\ UNCHANGED <<op, cid, aid, held, attached>>
  BY DEF RemoveHook, WithHooks
<1>3. StoreOperation
  BY <1>2 DEF StoreOperation
<1>4. /\ hooks' = [hooks EXCEPT ![c] = hooks[c] \ {h}]
      /\ UNCHANGED <<live, home, members, history>>
  BY <1>2 DEF DeleteWebhook
<1>5. HomesStay => CallsOK' /\ KnowsChannel'
  <2>1. attached' \in [Calls -> BOOLEAN]
    BY <1>1, <1>2 DEF CallsOK
  <2> QED
    BY <1>1, <1>2, <2>1, AnsweredCalls
<1>6. AttachedOK'
  BY <1>1, <1>2, <1>4 DEF AttachedOK
<1>7. BookOK' /\ AtomicUnlessStale'
  <2>1. book[c] \in Entry /\ book[c].hooks \in SUBSET Hooks
    BY <1>1 DEF BookOK, Entry
  <2>2. WithHooks(book[c], book[c].hooks \ {h}) \in Entry
    BY <2>1, EntryTypes
  <2>3. /\ Seen(c)' = WithHooks(Seen(c), hooks[c] \ {h})
        /\ Seen(c).hooks = hooks[c]
        /\ \A d \in Channels \ {c} : Seen(d)' = Seen(d)
    BY <1>1, <1>4, WebhookIsSeen
  <2>4. ~raced => book[c] = Seen(c)
    BY <1>1 DEF AtomicUnlessStale
  <2> QED
    BY <1>1, <1>2, <2>2, <2>3, <2>4, NoteKeepsBook
<1> QED
  BY <1>1, <1>3, <1>5, <1>6, <1>7, KeptParts
-----------------------------------------------------------------------------
(* The body has arrived.                                                   *)

(* A call that is not a PATCH of a member holds no member.                 *)
LEMMA OthersAttached ==
    ASSUME RestInv, NEW q \in Calls, NEW operation, Resumes(q, operation),
           operation # "patchMember", UNCHANGED attached
    PROVE  /\ ~attached[q] /\ attached' \in [Calls -> BOOLEAN]
           /\ \A p \in Calls : attached'[p] =>
                 /\ attached[p] /\ p # q
                 /\ op'[p] = "patchMember" /\ held'[p] = held[p] /\ aid'[p] = aid[p]
<1>1. StoreInv /\ CallsOK /\ KnowsChannel /\ AttachedOK /\ BookOK
        /\ AtomicUnlessStale
  BY TypeParts DEF RestInv
<1>2. ~attached[q]
  BY <1>1 DEF AttachedOK, Resumes
<1>3. \A p \in Calls : attached[p] => op[p] = "patchMember"
  BY <1>1 DEF AttachedOK
<1> QED
  BY <1>1, <1>2, <1>3 DEF CallsOK, Resumes

LEMMA BadBodyKept ==
    ASSUME RestInv, NEW q \in Calls, BadBody(q)
    PROVE  Kept
<1>1. StoreInv /\ CallsOK /\ KnowsChannel /\ AttachedOK /\ BookOK
        /\ AtomicUnlessStale
  BY TypeParts DEF RestInv
<1>2. /\ Resumes(q, op[q]) /\ Ends(q, "error")
      /\ attached' = [attached EXCEPT ![q] = FALSE]
      /\ UNCHANGED <<storeVars, book, raced>>
  BY DEF BadBody
<1>3. attached' \in [Calls -> BOOLEAN]
  BY <1>1, <1>2 DEF CallsOK
<1>4. HomesStay => CallsOK' /\ KnowsChannel'
  BY <1>1, <1>2, <1>3, ResumedCalls
<1>5. AttachedOK'
  BY <1>1, <1>2 DEF AttachedOK, CallsOK, Resumes, storeVars
<1>6. BookOK' /\ AtomicUnlessStale'
  BY <1>1, <1>2, SameBook
<1> QED
  BY <1>1, <1>2, <1>4, <1>5, <1>6, KeptParts

LEMMA CreateKept ==
    ASSUME RestInv, NEW q \in Calls, NEW o \in Objects, Create(q, o)
    PROVE  Kept
<1>1. StoreInv /\ CallsOK /\ KnowsChannel /\ AttachedOK /\ BookOK
        /\ AtomicUnlessStale
  BY TypeParts DEF RestInv
<1>0. cid[q] \in Channels
  BY <1>1 DEF Create, Resumes, KnowsChannel
<1> PICK c \in Channels : c = cid[q]
  BY <1>0
<1> DEFINE entry == [exists |-> TRUE, members |-> [a \in Agents |-> NoMember],
                     hooks |-> book[c].hooks]
<1>2. /\ Resumes(q, "create") /\ CreateChannel(c, o) /\ Ends(q, "ok")
      /\ Note(c, entry, FALSE)
      /\ UNCHANGED attached
  BY DEF Create
<1>4. StoreOperation
  BY <1>2 DEF StoreOperation
<1>5. /\ attached' \in [Calls -> BOOLEAN]
      /\ \A p \in Calls : attached'[p] =>
            /\ attached[p]
            /\ op'[p] = "patchMember" /\ held'[p] = held[p] /\ aid'[p] = aid[p]
  BY <1>2, OthersAttached
<1>6. HomesStay => CallsOK' /\ KnowsChannel'
  BY <1>1, <1>2, <1>5, ResumedCalls
<1>7. AttachedOK'
  <2> SUFFICES ASSUME NEW p \in Calls, attached[p]
               PROVE  members'[held[p]][aid[p]] # NoMember
    BY <1>5 DEF AttachedOK
  <2>1. op[p] = "patchMember" /\ members[held[p]][aid[p]] # NoMember
    BY <1>1 DEF AttachedOK
  <2>2. held[p] \in Objects /\ home[held[p]] = cid[p] /\ cid[p] \in Channels
    BY <1>1, <2>1 DEF KnowsChannel, CallsOK, Finders
  <2>3. held[p] # o
    BY <1>2, <2>2, StoreAssumption DEF CreateChannel
  <2> QED
    BY <1>1, <1>2, <2>1, <2>2, <2>3 DEF CreateChannel, StoreInv, StoreTypeOK
<1>8. BookOK' /\ AtomicUnlessStale'
  <2>1. book[c].hooks \in SUBSET Hooks
    BY <1>1 DEF BookOK, Entry
  <2>2. entry \in Entry
    BY <2>1, EntryTypes
  <2>3. /\ Seen(c)' = [exists |-> TRUE, members |-> [a \in Agents |-> NoMember],
                       hooks |-> Seen(c).hooks]
        /\ \A d \in Channels \ {c} : Seen(d)' = Seen(d)
    BY <1>1, <1>2, CreateIsSeen
  <2>4. ~raced => Seen(c)' = entry
    BY <1>1, <2>3 DEF AtomicUnlessStale
  <2> HIDE DEF entry
  <2> QED
    BY <1>1, <1>2, <2>2, <2>3, <2>4, NoteKeepsBook
<1> QED
  BY <1>1, <1>4, <1>6, <1>7, <1>8, KeptParts

(* A PATCH that finds its object registered still changes nothing.         *)
LEMMA PatchKept ==
    ASSUME RestInv, NEW q \in Calls, Patch(q)
    PROVE  Kept
<1>1. StoreInv /\ CallsOK /\ KnowsChannel /\ AttachedOK /\ BookOK
        /\ AtomicUnlessStale
  BY TypeParts DEF RestInv
<1>0. cid[q] \in Channels
  BY <1>1 DEF Patch, Resumes, KnowsChannel
<1> PICK c \in Channels : c = cid[q]
  BY <1>0
<1>2. /\ Resumes(q, "patchChannel") /\ SaveChannel(held[q]) /\ Ends(q, "ok")
      /\ Note(c, book[c], live[c] # held[q])
      /\ UNCHANGED attached
  BY DEF Patch
<1>3. held[q] \in Objects /\ home[held[q]] = c
  BY <1>1, <1>2 DEF Resumes, KnowsChannel, Finders
<1>4. StoreOperation
  BY <1>2, <1>3 DEF StoreOperation
<1>5. /\ attached' \in [Calls -> BOOLEAN]
      /\ \A p \in Calls : attached'[p] =>
            /\ attached[p]
            /\ op'[p] = "patchMember" /\ held'[p] = held[p] /\ aid'[p] = aid[p]
  BY <1>2, OthersAttached
<1>6. HomesStay => CallsOK' /\ KnowsChannel'
  BY <1>1, <1>2, <1>5, ResumedCalls
<1>7. AttachedOK'
  BY <1>1, <1>2, <1>5 DEF AttachedOK, SaveChannel
<1>8. BookOK' /\ AtomicUnlessStale'
  <2>1. book[c] \in Entry
    BY <1>1, <1>3 DEF BookOK
  <2>2. live[c] = held[q] => \A d \in Channels : Seen(d)' = Seen(d)
    <3>1. live[c] = held[q] => live' = live
      BY <1>1, <1>2, <1>3 DEF SaveChannel, StoreInv, StoreTypeOK
    <3> QED
      BY <1>2, <3>1 DEF SaveChannel, Seen
  <2>3. ~raced => book[c] = Seen(c)
    BY <1>1, <1>3 DEF AtomicUnlessStale
  <2> DEFINE stale == live[c] # held[q]
  <2>4. /\ stale \in BOOLEAN
        /\ Note(c, book[c], stale)
        /\ ~raced /\ ~stale => /\ Seen(c)' = book[c]
                               /\ \A d \in Channels \ {c} : Seen(d)' = Seen(d)
    BY <1>2, <1>3, <2>2, <2>3
  <2> HIDE DEF stale
  <2> QED
    BY <1>1, <1>3, <2>1, <2>4, NoteKeepsBook
<1> QED
  BY <1>1, <1>4, <1>6, <1>7, <1>8, KeptParts
(* An added member fills a slot of the object that is registered now, or   *)
(* none.                                                                   *)
LEMMA AddKept ==
    ASSUME RestInv, NEW q \in Calls, NEW a \in Agents, NEW m \in Profiles, Add(q, a, m)
    PROVE  Kept
<1>1. StoreInv /\ CallsOK /\ KnowsChannel /\ AttachedOK /\ BookOK
        /\ AtomicUnlessStale
  BY TypeParts DEF RestInv
<1>0. cid[q] \in Channels
  BY <1>1 DEF Add, Resumes, KnowsChannel
<1> PICK c \in Channels : c = cid[q]
  BY <1>0
<1> DEFINE stale == live[c] = NoObject
<1>2. /\ Resumes(q, "addMember") /\ SaveMember(q, c, a, m) /\ Ends(q, "ok")
      /\ Note(c, WithMember(book[c], a, m), stale)
  BY DEF Add, WithMember
<1>3. ~attached[q]
  BY <1>1, <1>2 DEF AttachedOK, Resumes
<1>4. m \in Member /\ m \in Slot /\ m # NoMember
  BY StoreAssumption, NoMemberIsNoProfile DEF Slot
<1>5. WithMember(book[c], a, m) \in Entry /\ stale \in BOOLEAN
  BY <1>1, <1>4, EntryTypes DEF BookOK
<1>6. CASE stale
  <2>1. UNCHANGED <<storeVars, attached>>
    BY <1>2, <1>6 DEF SaveMember
  <2>2. HomesStay => CallsOK' /\ KnowsChannel'
    <3>1. attached' \in [Calls -> BOOLEAN]
      BY <1>1, <2>1 DEF CallsOK
    <3> QED
      BY <1>1, <1>2, <3>1, ResumedCalls
  <2>3. AttachedOK'
    BY <1>1, <1>2, <1>3, <2>1 DEF AttachedOK, CallsOK, Resumes, storeVars
  <2> HIDE DEF stale
  <2>4. BookOK' /\ AtomicUnlessStale'
    BY <1>1, <1>2, <1>5, <1>6, NoteKeepsBook
  <2> QED
    BY <1>1, <2>1, <2>2, <2>3, <2>4, KeptParts
<1>7. CASE ~stale
  <2>1. AddMember(c, a, m) /\ Detach(live[c], a)
    BY <1>2, <1>7 DEF SaveMember
  <2>2. /\ live[c] # NoObject /\ live[c] \in Objects
        /\ members' = [members EXCEPT ![live[c]][a] = m]
        /\ UNCHANGED <<live, home, history, hooks>>
    BY <1>1, <2>1 DEF AddMember, StoreInv, StoreTypeOK
  <2>3. StoreOperation
    BY <2>1 DEF StoreOperation
  <2>4. attached' \in [Calls -> BOOLEAN] /\ \A p \in Calls : attached'[p] => attached[p]
    BY <1>1, <2>1 DEF CallsOK, Detach
  <2>5. HomesStay => CallsOK' /\ KnowsChannel'
    BY <1>1, <1>2, <2>4, ResumedCalls
  <2>6. AttachedOK'
    <3> SUFFICES ASSUME NEW p \in Calls, attached'[p]
                 PROVE  op'[p] = "patchMember" /\ members'[held'[p]][aid'[p]] # NoMember
      BY DEF AttachedOK
    <3>1. attached[p] /\ p # q
      BY <1>3, <2>4
    <3>2. op[p] = "patchMember" /\ members[held[p]][aid[p]] # NoMember
      BY <1>1, <3>1 DEF AttachedOK
    <3>3. held[p] \in Objects /\ aid[p] \in Agents
      BY <1>1, <3>2 DEF KnowsChannel, Finders
    <3>4. op'[p] = op[p] /\ held'[p] = held[p] /\ aid'[p] = aid[p]
      BY <1>1, <1>2, <3>1 DEF CallsOK, Resumes
    <3> QED
      BY <1>1, <1>4, <2>2, <3>2, <3>3, <3>4 DEF StoreInv, StoreTypeOK
  <2>7. BookOK' /\ AtomicUnlessStale'
    <3>1. /\ Seen(c)' = WithMember(Seen(c), a, m)
          /\ \A d \in Channels \ {c} : Seen(d)' = Seen(d)
      BY <1>1, <2>2, MemberIsSeen
    <3>2. ~raced => book[c] = Seen(c)
      BY <1>1 DEF AtomicUnlessStale
    <3> HIDE DEF stale
    <3> QED
      BY <1>1, <1>2, <1>5, <3>1, <3>2, NoteKeepsBook
  <2> QED
    BY <1>1, <2>3, <2>5, <2>6, <2>7, KeptParts
<1> QED
  BY <1>6, <1>7

(* The assignments a PATCH of a member comes to: all of them, or, when the *)
(* role is refused, none, because it comes first.                          *)
LEMMA AssignedFields ==
    /\ \A role \in RoleField \ {"invalid"} : Assigned(role) = {"role", "url"}
    /\ Assigned("invalid") = {}
<1>1. /\ DOMAIN FieldOrder = {1, 2}
      /\ FieldOrder[1] = "role" /\ FieldOrder[2] = "url"
  BY DEF FieldOrder
<1>2. 1..1 = {1} /\ 1..2 = {1, 2}
  OBVIOUS
<1>3. ASSUME NEW role \in RoleField \ {"invalid"}
      PROVE  Assigned(role) = {"role", "url"}
  <2>1. {j \in DOMAIN FieldOrder :
           \A k \in 1..j : FieldOrder[k] = "role" => role # "invalid"} = {1, 2}
    BY <1>1, <1>3
  <2> QED
    BY <1>1, <2>1 DEF Assigned
<1>4. {j \in DOMAIN FieldOrder :
         \A k \in 1..j : FieldOrder[k] = "role" => "invalid" # "invalid"} = {}
  BY <1>1, <1>2
<1>5. Assigned("invalid") = {}
  BY <1>4 DEF Assigned
<1> QED
  BY <1>3, <1>5

(* What a PATCH makes of a member is a member the REST API may give, and a *)
(* refused one leaves it as it was.                                        *)
LEMMA PatchedIsProfile ==
    ASSUME NEW m \in Profiles, NEW role \in RoleField, NEW url \in UrlField
    PROVE  /\ Patched(m, role, url) \in Profiles
           /\ role = "invalid" => Patched(m, role, url) = m
<1>1. PICK given \in SUBSET Roles : Profiles = [role : given, url : BOOLEAN]
  BY RestAssumption
<1>2. role # "absent" /\ role # "invalid" => role \in given
  BY <1>1 DEF RoleField
<1>3. CASE role = "invalid"
  <2>1. Patched(m, role, url) = [role |-> m.role, url |-> m.url]
    BY <1>3, AssignedFields DEF Patched
  <2> QED
    BY <1>1, <2>1
<1>4. CASE role # "invalid"
  <2>1. Assigned(role) = {"role", "url"}
    BY <1>4, AssignedFields
  <2> QED
    BY <1>1, <1>2, <1>4, <2>1 DEF Patched, UrlField
<1> QED
  BY <1>3, <1>4

(* A member that is still the channel's is patched in place; the reply is  *)
(* stale when it is not, or when the channel is no longer registered.      *)
LEMMA PatchFoundKept ==
    ASSUME RestInv, NEW q \in Calls, NEW role \in RoleField, NEW url \in UrlField,
           PatchFound(q, role, url)
    PROVE  Kept
<1>1. StoreInv /\ CallsOK /\ KnowsChannel /\ AttachedOK /\ BookOK
        /\ AtomicUnlessStale
  BY TypeParts DEF RestInv
<1>0. cid[q] \in Channels
  BY <1>1 DEF PatchFound, Resumes, KnowsChannel
<1> PICK c \in Channels : c = cid[q]
  BY <1>0
<1>a. aid[q] \in Agents /\ held[q] \in Objects
  BY <1>1 DEF PatchFound, Resumes, KnowsChannel, Finders
<1> PICK a \in Agents, o \in Objects : a = aid[q] /\ o = held[q]
  BY <1>a
<1> DEFINE stale == ~attached[q] \/ live[c] # o
           m == Patched(members[o][a], role, url)
<1>2. /\ Resumes(q, "patchMember") /\ Ends(q, "ok")
      /\ role # "invalid"
      /\ PatchHeld(q, role, url)
      /\ Note(c, WithMember(book[c], a, Patched(book[c].members[a], role, url)), stale)
      /\ attached' = [attached EXCEPT ![q] = FALSE]
  BY DEF PatchFound, WithMember
<1>3. attached' \in [Calls -> BOOLEAN]
        /\ \A p \in Calls : attached'[p] <=> attached[p] /\ p # q
  BY <1>1, <1>2 DEF CallsOK
<1>4. HomesStay => CallsOK' /\ KnowsChannel'
  BY <1>1, <1>2, <1>3, ResumedCalls
<1>5. attached[q] => /\ m \in Profiles /\ m # NoMember
                     /\ PatchMember(o, a, m)
                     /\ members' = [members EXCEPT ![o][a] = m]
                     /\ UNCHANGED <<live, home, history, hooks>>
  <2> SUFFICES ASSUME attached[q]
               PROVE  /\ m \in Profiles /\ m # NoMember
                      /\ PatchMember(o, a, m)
    BY DEF PatchMember
  <2>1. members[o][a] # NoMember
    BY <1>1 DEF AttachedOK
  <2>2. members[o][a] \in Profiles
    BY <1>1, <2>1, RestAssumption DEF StoreInv, Profiled
  <2>3. m \in Profiles
    BY <1>2, <2>2, PatchedIsProfile
  <2>4. m # NoMember
    BY <2>3, StoreAssumption, NoMemberIsNoProfile
  <2>5. PatchMember(o, a, m)
    BY <1>2 DEF PatchHeld
  <2> QED
    BY <2>3, <2>4, <2>5
<1>6. ~attached[q] => UNCHANGED storeVars
  BY <1>2 DEF PatchHeld
<1>7. [StoreOperation]_storeVars
  BY <1>5, <1>6 DEF StoreOperation
<1>8. AttachedOK'
  <2> SUFFICES ASSUME NEW p \in Calls, attached'[p]
               PROVE  op'[p] = "patchMember" /\ members'[held'[p]][aid'[p]] # NoMember
    BY DEF AttachedOK
  <2>1. attached[p] /\ p # q
    BY <1>3
  <2>2. op[p] = "patchMember" /\ members[held[p]][aid[p]] # NoMember
    BY <1>1, <2>1 DEF AttachedOK
  <2>3. held[p] \in Objects /\ aid[p] \in Agents
    BY <1>1, <2>2 DEF KnowsChannel, Finders
  <2>4. op'[p] = op[p] /\ held'[p] = held[p] /\ aid'[p] = aid[p]
    BY <1>1, <1>2, <2>1 DEF CallsOK, Resumes
  <2> HIDE DEF m
  <2>5. CASE attached[q]
    <3>1. m # NoMember /\ members' = [members EXCEPT ![o][a] = m]
      BY <1>5, <2>5
    <3> QED
      BY <1>1, <2>2, <2>3, <2>4, <3>1 DEF StoreInv, StoreTypeOK
  <2>6. CASE ~attached[q]
    BY <1>6, <2>2, <2>4, <2>6 DEF storeVars
  <2> QED
    BY <2>5, <2>6
<1>9. BookOK' /\ AtomicUnlessStale'
  <2> DEFINE new == Patched(book[c].members[a], role, url)
  <2> HIDE DEF new
  <2>3. ASSUME ~raced, ~stale
        PROVE  /\ WithMember(book[c], a, new) \in Entry
               /\ Seen(c)' = WithMember(book[c], a, new)
               /\ \A d \in Channels \ {c} : Seen(d)' = Seen(d)
    <3>1. attached[q] /\ live[c] = o /\ live[c] # NoObject
      BY <2>3, StoreAssumption
    <3>2. book[c] = Seen(c) /\ Seen(c).members = members[o]
      BY <1>1, <2>3, <3>1 DEF AtomicUnlessStale, Seen
    <3>3. new = m
      BY <3>2 DEF new
    <3> HIDE DEF m
    <3>4. WithMember(book[c], a, new) \in Entry
      BY <1>1, <1>5, <3>1, <3>3, StoreAssumption, EntryTypes DEF BookOK, Slot
    <3>5. /\ Seen(c)' = WithMember(Seen(c), a, m)
          /\ \A d \in Channels \ {c} : Seen(d)' = Seen(d)
      BY <1>1, <1>5, <3>1, MemberIsSeen
    <3> QED
      BY <3>2, <3>3, <3>4, <3>5
  <2>4. Note(c, WithMember(book[c], a, new), stale) /\ stale \in BOOLEAN
    BY <1>2 DEF new
  <2> HIDE DEF stale
  <2> QED
    BY <1>1, <2>3, <2>4, NoteKeepsBook
<1> QED
  BY <1>1, <1>4, <1>7, <1>8, <1>9, KeptParts

LEMMA PatchRefusedKept ==
    ASSUME RestInv, NEW q \in Calls, NEW role \in RoleField, NEW url \in UrlField,
           PatchRefused(q, role, url)
    PROVE  Kept
<1>1. StoreInv /\ CallsOK /\ KnowsChannel /\ AttachedOK /\ BookOK
        /\ AtomicUnlessStale
  BY TypeParts DEF RestInv
<1>2. /\ Resumes(q, "patchMember") /\ Ends(q, "error")
      /\ attached' = [attached EXCEPT ![q] = FALSE]
      /\ role = "invalid" /\ PatchHeld(q, role, url)
      /\ UNCHANGED <<book, raced>>
  BY DEF PatchRefused
<1>6. UNCHANGED storeVars
  <2>1. aid[q] \in Agents /\ held[q] \in Objects
    BY <1>1, <1>2 DEF Resumes, KnowsChannel, Finders
  <2> PICK a \in Agents, o \in Objects : a = aid[q] /\ o = held[q]
    BY <2>1
  <2>2. CASE attached[q]
    <3>1. members[o][a] \in Profiles
      BY <1>1, <2>2, RestAssumption DEF StoreInv, Profiled, AttachedOK
    <3>2. Patched(members[o][a], role, url) = members[o][a]
      BY <1>2, <3>1, PatchedIsProfile
    <3>3. members' = [members EXCEPT ![o][a] = members[o][a]]
            /\ UNCHANGED <<live, home, history, hooks>>
      BY <1>2, <2>2, <3>2 DEF PatchHeld, PatchMember
    <3>4. members \in [Objects -> [Agents -> Slot]]
      BY <1>1 DEF StoreInv, StoreTypeOK
    <3>5. members' = members
      BY <3>3, <3>4
    <3> QED
      BY <3>3, <3>5 DEF storeVars
  <2>3. CASE ~attached[q]
    BY <1>2, <2>3 DEF PatchHeld
  <2> QED
    BY <2>2, <2>3
<1>3. attached' \in [Calls -> BOOLEAN]
  BY <1>1, <1>2 DEF CallsOK
<1>4. HomesStay => CallsOK' /\ KnowsChannel'
  BY <1>1, <1>2, <1>3, ResumedCalls
<1>5. AttachedOK'
  BY <1>1, <1>2, <1>6 DEF AttachedOK, CallsOK, Resumes, storeVars
<1>7. BookOK' /\ AtomicUnlessStale'
  BY <1>1, <1>2, <1>6, SameBook
<1> QED
  BY <1>1, <1>4, <1>5, <1>6, <1>7, KeptParts

LEMMA AddHookKept ==
    ASSUME RestInv, NEW q \in Calls, NEW h \in Hooks, AddHook(q, h)
    PROVE  Kept
<1>1. StoreInv /\ CallsOK /\ KnowsChannel /\ AttachedOK /\ BookOK
        /\ AtomicUnlessStale
  BY TypeParts DEF RestInv
<1>0. cid[q] \in Channels
  BY <1>1 DEF AddHook, Resumes, KnowsChannel
<1> PICK c \in Channels : c = cid[q]
  BY <1>0
<1> DEFINE stale == live[c] = NoObject
<1>2. /\ Resumes(q, "addHook") /\ SaveWebhook(c, h) /\ Ends(q, "ok")
      /\ Note(c, WithHooks(book[c], book[c].hooks \cup {h}), stale)
      /\ UNCHANGED attached
  BY DEF AddHook, WithHooks
<1>3. StoreOperation
  BY <1>2 DEF StoreOperation
<1>4. /\ hooks' = [hooks EXCEPT ![c] = hooks[c] \cup {h}]
      /\ UNCHANGED <<live, home, members, history>>
  BY <1>2 DEF SaveWebhook
<1>5. /\ attached' \in [Calls -> BOOLEAN]
      /\ \A p \in Calls : attached'[p] =>
            /\ attached[p]
            /\ op'[p] = "patchMember" /\ held'[p] = held[p] /\ aid'[p] = aid[p]
  BY <1>2, OthersAttached
<1>6. HomesStay => CallsOK' /\ KnowsChannel'
  BY <1>1, <1>2, <1>5, ResumedCalls
<1>7. AttachedOK'
  BY <1>1, <1>4, <1>5 DEF AttachedOK
<1>8. BookOK' /\ AtomicUnlessStale'
  <2>1. book[c] \in Entry /\ book[c].hooks \in SUBSET Hooks
    BY <1>1 DEF BookOK, Entry
  <2>2. WithHooks(book[c], book[c].hooks \cup {h}) \in Entry
    BY <2>1, EntryTypes
  <2>3. /\ Seen(c)' = WithHooks(Seen(c), hooks[c] \cup {h})
        /\ Seen(c).hooks = hooks[c]
        /\ \A d \in Channels \ {c} : Seen(d)' = Seen(d)
    BY <1>1, <1>4, WebhookIsSeen
  <2>4. ~raced => book[c] = Seen(c)
    BY <1>1 DEF AtomicUnlessStale
  <2>5. stale \in BOOLEAN
    OBVIOUS
  <2> HIDE DEF stale
  <2> QED
    BY <1>1, <1>2, <2>2, <2>3, <2>4, <2>5, NoteKeepsBook
<1> QED
  BY <1>1, <1>3, <1>6, <1>7, <1>8, KeptParts
-----------------------------------------------------------------------------
LEMMA NextKept == RestInv /\ [Next]_vars => Kept
<1> SUFFICES ASSUME RestInv, [Next]_vars PROVE Kept
  OBVIOUS
<1>1. CASE UNCHANGED vars
  <2>1. UNCHANGED storeVars
    BY <1>1 DEF vars
  <2>2. /\ StoreInv /\ CallsOK /\ KnowsChannel /\ AttachedOK /\ BookOK
        /\ AtomicUnlessStale
    BY TypeParts DEF RestInv
  <2>3. CallsOK' /\ KnowsChannel' /\ AttachedOK'
    BY <1>1, <2>2 DEF vars, callVars, storeVars, CallsOK, KnowsChannel, AttachedOK
  <2>4. BookOK' /\ AtomicUnlessStale'
    BY <1>1, <2>2, SameBook DEF vars
  <2> QED
    BY <2>1, <2>2, <2>3, <2>4, KeptParts
<1>2. ASSUME NEW q \in Calls, NEW c \in Channels, Arrival(q, c) PROVE Kept
  BY <1>2, FindsKept, FindsNothingKept, AsksToCreateKept, DeleteKept, RemoveKept,
     RemoveHookKept DEF Arrival
<1>3. ASSUME NEW q \in Calls, Body(q) PROVE Kept
  BY <1>3, BadBodyKept, CreateKept, PatchKept, AddKept, PatchFoundKept,
     PatchRefusedKept, AddHookKept DEF Body
<1> QED
  BY <1>1, <1>2, <1>3 DEF Next

(* The types, what the store keeps and what suspended calls know of it     *)
(* (server.py:111-244): the inductive invariant.                           *)
THEOREM RestInvariant == Spec => []RestInv
<1>1. RestInv /\ [Next]_vars => RestInv'
  BY NextKept DEF Kept
<1> QED
  BY <1>1, InitRestInv, PTL DEF Spec

(* Type correctness, and that a PATCH holds on to a member only while the  *)
(* channel does.                                                           *)
THEOREM RestTypeCorrect == Spec => []TypeOK
<1>1. RestInv => TypeOK
  BY DEF RestInv
<1> QED
  BY <1>1, RestInvariant, PTL

(* However many calls overlap, each looks as if it had happened at once    *)
(* when it replied, unless some reply was about a channel or a member that *)
(* was gone (server.py:153, 176, 198, 230).                                *)
THEOREM CallsAreAtomic == Spec => []AtomicUnlessStale
<1>1. RestInv => AtomicUnlessStale
  BY DEF RestInv
<1> QED
  BY <1>1, RestInvariant, PTL

(* The endpoints make the operations of ChannelStore and no others, which  *)
(* is what the hub's theorems assume of them (storage/memory.py).          *)
THEOREM EndpointsImplementStore == Spec => ImplementsStore
<1>1. Init => StoreInit
  BY DEF Init
<1>2. RestInv /\ [Next]_vars => [StoreOperation]_storeVars
  BY NextKept DEF Kept
<1> QED
  BY <1>1, <1>2, RestInvariant, PTL DEF Spec, ImplementsStore

(* An object that its id no longer names comes back only through a PATCH   *)
(* of the channel that had found it (server.py:153).                       *)
THEOREM OnlyPatchesRevive == Spec => OnlyPatchRevives
<1>1. ASSUME RestInv, [Next]_vars
      PROVE  [\A c \in Channels :
                live'[c] # live[c] /\ live'[c] # NoObject /\ home[live'[c]] # NoChannel
                => \E q \in Calls : /\ op[q] = "patchChannel"
                                    /\ held[q] = live'[c]
                                    /\ at[q] = "reading" /\ at'[q] = "ended"]_vars
  <2> SUFFICES ASSUME NEW c \in Channels, live'[c] # live[c], live'[c] # NoObject,
                      home[live'[c]] # NoChannel
               PROVE  \E q \in Calls : /\ op[q] = "patchChannel"
                                      /\ held[q] = live'[c]
                                      /\ at[q] = "reading" /\ at'[q] = "ended"
    OBVIOUS
  <2>1. live \in [Channels -> Objects \cup {NoObject}]
          /\ at \in [Calls -> {"idle", "reading", "ended"}]
    BY <1>1 DEF RestInv, TypeOK, StoreTypeOK
  <2>2. ~UNCHANGED storeVars
    BY DEF storeVars
  <2>3. ASSUME NEW d \in Channels, NEW o \in Objects, CreateChannel(d, o) PROVE FALSE
    BY <2>1, <2>3 DEF CreateChannel
  <2>4. ASSUME NEW d \in Channels, DeleteChannel(d) PROVE FALSE
    BY <2>1, <2>4 DEF DeleteChannel
  <2>5. live' # live
    OBVIOUS
  <2>6. ASSUME NEW q \in Calls, NEW d \in Channels, Arrival(q, d) PROVE FALSE
    BY <2>2, <2>4, <2>5, <2>6
       DEF Arrival, Finds, Asks, FindsNothing, AsksToCreate, Delete, Remove,
       RemoveHook, RemoveMember, DeleteWebhook
  <2>7. ASSUME NEW q \in Calls, Body(q) PROVE Patch(q)
    <3>1. ASSUME NEW o \in Objects, Create(q, o) PROVE FALSE
      <4>1. cid[q] \in Channels
        BY <1>1, <3>1 DEF RestInv, KnowsChannel, Create, Resumes
      <4> QED
        BY <2>3, <3>1, <4>1 DEF Create
    <3>2. ASSUME NEW a \in Agents, NEW m \in Profiles, Add(q, a, m) PROVE FALSE
      BY <2>5, <3>2 DEF Add, SaveMember, AddMember, storeVars
    <3>3. ASSUME NEW role \in RoleField, NEW url \in UrlField,
                 PatchFound(q, role, url) \/ PatchRefused(q, role, url)
          PROVE  FALSE
      BY <2>5, <3>3 DEF PatchFound, PatchRefused, PatchHeld, PatchMember,
         storeVars
    <3>4. ASSUME NEW h \in Hooks, AddHook(q, h) PROVE FALSE
      BY <2>5, <3>4 DEF AddHook, SaveWebhook
    <3>5. ~BadBody(q)
      BY <2>2 DEF BadBody
    <3> QED
      BY <2>7, <3>1, <3>2, <3>3, <3>4, <3>5 DEF Body
  <2>8. PICK q \in Calls : Patch(q)
    BY <1>1, <2>2, <2>6, <2>7 DEF Next, vars
  <2>9. op[q] = "patchChannel" /\ at[q] = "reading" /\ at'[q] = "ended"
    BY <2>1, <2>8 DEF Patch, Resumes, Ends
  <2>10. held[q] = live'[c]
    BY <2>1, <2>8 DEF Patch, SaveChannel
  <2> QED
    BY <2>9, <2>10
<1> QED
  BY <1>1, RestInvariant, PTL DEF Spec, OnlyPatchRevives
=============================================================================
