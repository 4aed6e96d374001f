--------------------------- MODULE ConfigFlow_proofs ----------------------------
(***************************************************************************)
(* Safety of ConfigFlow.  A form is validated by two requests, so what it  *)
(* read before them must still hold after them:                            *)
(*   - Sound: the data under validation are about the contract whose       *)
(*     unique id the entry has or will have, which no entry has yet when   *)
(*     one is set up; a checked password is one of the account;            *)
(*   - ClaimInv: no two open flows have set the same unique id, so an      *)
(*     entry that is created never takes the id another setup checked;     *)
(*   - CapInv: every setup has a slot left.                                *)
(***************************************************************************)
EXTENDS ConfigFlow, FiniteSetTheorems, TLAPS

Flow == [pc : Points, source : {"user", "reauth", "reconfigure"},
         entry : 0..MaxEntries, uid : Identities \cup {NoData},
         data : Data \cup {NoData}, open : BOOLEAN]

Validating == {"login", "contract"}

Sound(w) ==
    /\ w.pc \in {"idle", "mismatch"} => ~w.open
    /\ w.source # "user" => w.entry \in 1..created
    /\ w.pc \in Validating => w.data \in Data
    /\ w.pc = "contract" => w.data.password.of = w.data.user
    /\ w.pc \in Validating /\ w.source = "user" /\ w.open =>
          w.uid = w.data.identity /\ ~Configured(w.uid)
    /\ w.pc \in Validating /\ w.source # "user" /\ w.entry \in Present =>
          w.data.identity = entries[w.entry].uid

SoundInv == \A f \in Flows : Sound(flow[f])

ClaimInv ==
    \A f, g \in Flows :
        f # g /\ flow[f].open /\ flow[g].open /\ flow[f].uid = flow[g].uid => flow[f].uid = NoData

CapInv == created + Cardinality(Setups) <= MaxEntries

Inv == TypeOK /\ SoundInv /\ ClaimInv /\ CapInv /\ EntriesValidated /\ OneEntryPerContract

-------------------------------------------------------------------------------
\* NoData is no data and no unique id, so an entry is not Gone.
LEMMA EntryIsPresent ==
    /\ Gone \notin Entry
    /\ Idle \in Flow
BY ConfigFlowAssumption DEF Gone, Entry, Idle, Flow, Points

\* What TypeOK says of one flow and one entry.
LEMMA TypeOfParts ==
    ASSUME TypeOK
    PROVE  /\ flow \in [Flows -> Flow]
           /\ entries \in [Slots -> Entry \cup {Gone}]
           /\ created \in 0..MaxEntries
           /\ Present \subseteq 1..created
           /\ \A s \in Present : s \in Slots /\ entries[s] \in Entry
BY ConfigFlowAssumption, EntryIsPresent DEF TypeOK, Flow, Present, Slots

\* Setups after one flow changes: at most that flow joins or leaves.
LEMMA SetupsStep ==
    ASSUME TypeOK, NEW f \in Flows, NEW w \in Flow, Becomes(f, w)
    PROVE  /\ Cardinality(Setups) \in Nat
           /\ Cardinality(Setups') \in Nat
           /\ w.source = "user" /\ w.open => Cardinality(Setups') <= Cardinality(Setups) + 1
           /\ ~(w.source = "user" /\ w.open) \/ f \in Setups =>
                 Cardinality(Setups') <= Cardinality(Setups)
           /\ ~(w.source = "user" /\ w.open) /\ f \in Setups =>
                 Cardinality(Setups') = Cardinality(Setups) - 1
<1>1. flow \in [Flows -> Flow] /\ flow' = [flow EXCEPT ![f] = w]
  BY TypeOfParts DEF Becomes
<1>2. IsFiniteSet(Setups) /\ Cardinality(Setups) \in Nat
  BY ConfigFlowAssumption, FS_Subset, FS_CardinalityType DEF Setups
<1>3. CASE w.source = "user" /\ w.open
  <2>1. Setups' = Setups \cup {f}
    BY <1>1, <1>3 DEF Setups
  <2>2. Cardinality(Setups') = IF f \in Setups THEN Cardinality(Setups) ELSE Cardinality(Setups) + 1
    BY <1>2, <2>1, FS_AddElement
  <2> QED
    BY <1>2, <1>3, <2>2
<1>4. CASE ~(w.source = "user" /\ w.open)
  <2>1. Setups' = Setups \ {f}
    BY <1>1, <1>4 DEF Setups
  <2>2. /\ Cardinality(Setups') = IF f \in Setups THEN Cardinality(Setups) - 1 ELSE Cardinality(Setups)
        /\ Cardinality(Setups') \in Nat
    BY <1>2, <2>1, FS_RemoveElement, FS_CardinalityType
  <2> QED
    BY <1>2, <1>4, <2>2
<1> QED
  BY <1>3, <1>4

-------------------------------------------------------------------------------
\* An action that changes one flow and no entry.
LEMMA FlowStep ==
    ASSUME Inv, secret' \in [Users -> 0..MaxChanges],
           NEW f \in Flows, NEW w \in Flow, Becomes(f, w), UNCHANGED <<entries, created>>,
           Sound(w),
           w.open /\ w.uid # NoData => ~Claimed(f, w.uid),
           w.source = "user" /\ w.open => f \in Setups \/ created + Cardinality(Setups) < MaxEntries
    PROVE  Inv'
<1>1. flow \in [Flows -> Flow] /\ flow' = [flow EXCEPT ![f] = w] /\ created \in 0..MaxEntries
  BY TypeOfParts DEF Becomes, Inv
<1>2. Present' = Present /\ \A id : Configured(id)' = Configured(id)
  BY DEF Present, Configured
<1>3. TypeOK'
  BY <1>1, <1>2 DEF Inv, TypeOK, Flow
<1>4. SoundInv'
  <2>1. \A v : Sound(v)' = Sound(v)
    BY <1>2 DEF Sound
  <2> QED
    BY <1>1, <2>1 DEF Inv, SoundInv
<1>5. ClaimInv'
  BY <1>1 DEF Inv, ClaimInv, Claimed
<1>6. CapInv'
  BY <1>1, SetupsStep, ConfigFlowAssumption DEF Inv, CapInv
<1>7. EntriesValidated' /\ OneEntryPerContract'
  BY <1>2 DEF Inv, EntriesValidated, OneEntryPerContract
<1> QED
  BY <1>3, <1>4, <1>5, <1>6, <1>7 DEF Inv

\* A flow that is over, or closed, has nothing to keep but the entry it is about.
LEMMA OverKeepsInv ==
    ASSUME Inv, secret' = secret, NEW f \in Flows, Becomes(f, Idle), UNCHANGED <<entries, created>>
    PROVE  Inv'
<1>1. Idle \in Flow /\ Sound(Idle) /\ ~Idle.open
  BY EntryIsPresent DEF Idle, Sound, Validating
<1> QED
  BY <1>1, FlowStep DEF Inv, TypeOK

LEMMA OpensKeepsInv ==
    ASSUME Inv, NEW f \in Flows, NEW source \in {"user", "reauth", "reconfigure"}, NEW s \in 0..MaxEntries,
           Opens(f, source, s),
           source # "user" => s \in Present,
           source = "user" => created + Cardinality(Setups) < MaxEntries
    PROVE  Inv'
<1> DEFINE w == [Idle EXCEPT !.pc = "form", !.source = source, !.entry = s, !.open = TRUE]
<1>1. w \in Flow /\ w.uid = NoData
  BY EntryIsPresent DEF Idle, Flow, Points
<1>2. Sound(w)
  BY TypeOfParts DEF Inv, Sound, Validating, Idle
<1>3. w.source = source
  BY DEF Idle
<1>4. Becomes(f, w) /\ UNCHANGED <<entries, created>> /\ secret' = secret
  BY DEF Opens
<1> HIDE DEF w
<1> QED
  BY <1>1, <1>2, <1>3, <1>4, FlowStep DEF Inv, TypeOK

LEMMA ReformKeepsInv ==
    ASSUME Inv, secret' = secret, NEW f \in Flows, Reform(f)
    PROVE  Inv'
<1>1. CASE flow[f].open
  <2> DEFINE w == [flow[f] EXCEPT !.pc = "form", !.data = NoData]
  <2>1. flow[f] \in Flow /\ Sound(flow[f])
    BY TypeOfParts DEF Inv, SoundInv
  <2>2. w \in Flow /\ Sound(w)
    BY <2>1 DEF Flow, Points, Sound, Validating
  <2>3. w.open /\ w.uid # NoData => ~Claimed(f, w.uid)
    BY <1>1, <2>1 DEF Inv, ClaimInv, Claimed, Flow
  <2>4. w.source = "user" => f \in Setups
    BY <1>1, <2>1 DEF Setups, Flow
  <2>5. Becomes(f, w) /\ UNCHANGED <<entries, created>>
    BY <1>1 DEF Reform
  <2> HIDE DEF w
  <2> QED
    BY <2>2, <2>3, <2>4, <2>5, FlowStep DEF Inv, TypeOK
<1>2. CASE ~flow[f].open
  BY <1>2, OverKeepsInv DEF Reform
<1> QED
  BY <1>1, <1>2

\* A submitted form, with data about the contract of the flow.
LEMMA ValidateKeepsInv ==
    ASSUME Inv, secret' = secret, NEW f \in Flows, NEW uid \in Identities \cup {NoData}, NEW d \in Data,
           flow[f].pc = "form",
           Validate(f, uid, d),
           uid # NoData => ~Claimed(f, uid),
           flow[f].source = "user" => uid = d.identity /\ ~Configured(uid),
           flow[f].source # "user" /\ flow[f].entry \in Present =>
               d.identity = entries[flow[f].entry].uid
    PROVE  Inv'
<1> DEFINE w == [flow[f] EXCEPT !.pc = "login", !.uid = uid, !.data = d]
<1>1. flow[f] \in Flow /\ Sound(flow[f])
  BY TypeOfParts DEF Inv, SoundInv
<1>2. w \in Flow /\ Sound(w)
  BY <1>1 DEF Flow, Points, Sound, Validating
<1>3. w.uid = uid /\ (w.source = "user" /\ w.open => f \in Setups)
  BY <1>1 DEF Setups, Flow
<1>4. Becomes(f, w) /\ UNCHANGED <<entries, created>>
  BY DEF Validate
<1> HIDE DEF w
<1> QED
  BY <1>2, <1>3, <1>4, FlowStep DEF Inv, TypeOK

LEMMA SubmitKeepsInv ==
    ASSUME Inv, NEW f \in Flows,
           \/ \E p \in Passwords : SubmitReauth(f, p)
           \/ \E d \in Data : SubmitUser(f, d) \/ SubmitReconfigure(f, d) \/ RefuseIdentity(f, d)
    PROVE  Inv'
<1>1. ASSUME NEW p \in Passwords, SubmitReauth(f, p) PROVE Inv'
  <2> DEFINE s == flow[f].entry
             d == [entries[s].data EXCEPT !.password = p]
  <2>1. s \in Present /\ entries[s] \in Entry /\ flow[f].pc = "form" /\ flow[f].source = "reauth"
    BY <1>1, TypeOfParts DEF Inv, SubmitReauth, AtForm
  <2>2. d \in Data /\ d.identity = entries[s].data.identity
    BY <2>1 DEF Entry, Data
  <2>3. d.identity = entries[s].uid
    BY <2>1, <2>2 DEF Inv, OneEntryPerContract
  <2>4. Validate(f, NoData, d) /\ secret' = secret
    BY <1>1 DEF SubmitReauth
  <2> HIDE DEF d
  <2> QED
    BY <2>1, <2>2, <2>3, <2>4, ValidateKeepsInv
<1>2. ASSUME NEW d \in Data, SubmitUser(f, d) PROVE Inv'
  <2>1. d.identity \in Identities /\ d.identity # NoData
    BY ConfigFlowAssumption DEF Data
  <2>2. CASE Claimed(f, d.identity) \/ Configured(d.identity)
    BY <1>2, <2>2, OverKeepsInv DEF SubmitUser, Abort
  <2>3. CASE ~(Claimed(f, d.identity) \/ Configured(d.identity))
    BY <1>2, <2>1, <2>3, ValidateKeepsInv DEF SubmitUser, AtForm
  <2> QED
    BY <2>2, <2>3
<1>3. ASSUME NEW d \in Data, SubmitReconfigure(f, d) PROVE Inv'
  <2>1. d.identity \in Identities
    BY DEF Data
  <2>2. CASE Claimed(f, d.identity)
    BY <1>3, <2>2, OverKeepsInv DEF SubmitReconfigure, Abort
  <2>3. CASE ~Claimed(f, d.identity)
    BY <1>3, <2>1, <2>3, ValidateKeepsInv DEF SubmitReconfigure, AtForm, Mismatch
  <2> QED
    BY <2>2, <2>3
<1>4. ASSUME NEW d \in Data, RefuseIdentity(f, d) PROVE Inv'
  <2> DEFINE w == [Idle EXCEPT !.pc = "mismatch", !.uid = d.identity]
  <2>1. w \in Flow /\ Sound(w) /\ ~w.open
    BY EntryIsPresent DEF Data, Idle, Flow, Points, Sound, Validating
  <2>2. Becomes(f, w) /\ UNCHANGED <<entries, created>> /\ secret' = secret
    BY <1>4 DEF RefuseIdentity
  <2> HIDE DEF w
  <2> QED
    BY <2>1, <2>2, FlowStep DEF Inv, TypeOK
<1> QED
  BY <1>1, <1>2, <1>3, <1>4

LEMMA LoggedInKeepsInv ==
    ASSUME Inv, NEW f \in Flows, LoggedIn(f)
    PROVE  Inv'
<1> DEFINE w == [flow[f] EXCEPT !.pc = "contract"]
<1>1. flow[f] \in Flow /\ Sound(flow[f]) /\ flow[f].pc = "login"
  BY TypeOfParts DEF Inv, SoundInv, LoggedIn
<1>2. flow[f].data.password.of = flow[f].data.user
  BY DEF LoggedIn, Password
<1>3. w \in Flow /\ Sound(w)
  BY <1>1, <1>2 DEF Flow, Points, Sound, Validating
<1>4. w.open /\ w.uid # NoData => ~Claimed(f, w.uid)
  BY <1>1 DEF Inv, ClaimInv, Claimed, Flow
<1>5. w.source = "user" /\ w.open => f \in Setups
  BY <1>1 DEF Setups, Flow
<1>6. Becomes(f, w) /\ UNCHANGED <<entries, created>> /\ secret' = secret
  BY DEF LoggedIn
<1> HIDE DEF w
<1> QED
  BY <1>3, <1>4, <1>5, <1>6, FlowStep DEF Inv, TypeOK

\* A closed flow runs on, but claims nothing and creates nothing.
LEMMA ClosedIsSound ==
    ASSUME Inv, NEW f \in Flows
    PROVE  Closed(f) \in Flow /\ Sound(Closed(f)) /\ ~Closed(f).open
<1>1. flow[f] \in Flow /\ Sound(flow[f])
  BY TypeOfParts DEF Inv, SoundInv
<1>2. CASE flow[f].pc = "form"
  BY <1>2, EntryIsPresent DEF Closed, Idle, Sound, Validating
<1>3. CASE flow[f].pc # "form"
  BY <1>1, <1>3 DEF Closed, Flow, Sound, Validating
<1> QED
  BY <1>2, <1>3

LEMMA CloseKeepsInv ==
    ASSUME Inv, NEW f \in Flows, Close(f)
    PROVE  Inv'
BY ClosedIsSound, FlowStep DEF Close, Inv, TypeOK

-------------------------------------------------------------------------------
\* The actions that change an entry.

\* A created entry has a slot of its own and the id of no other entry.
LEMMA CreateKeepsInv ==
    ASSUME Inv, NEW f \in Flows, Create(f)
    PROVE  Inv' /\ (created' # created => \A s \in Present : entries'[s] = entries[s])
<1> DEFINE n == created + 1
<1>1. /\ flow[f] \in Flow /\ Sound(flow[f]) /\ flow[f].source = "user" /\ flow[f].pc = "contract"
      /\ Becomes(f, Idle) /\ secret' = secret
      /\ flow \in [Flows -> Flow] /\ created \in 0..MaxEntries /\ MaxEntries \in Nat
  BY TypeOfParts, ConfigFlowAssumption DEF Inv, SoundInv, Create, Validated
<1>2. CASE ~flow[f].open
  BY <1>1, <1>2, OverKeepsInv DEF Create
<1>3. CASE flow[f].open
  <2>1. f \in Setups
    BY <1>1, <1>3 DEF Setups
  <2>2. /\ Cardinality(Setups) \in Nat /\ Cardinality(Setups') \in Nat
        /\ Cardinality(Setups') = Cardinality(Setups) - 1
    <3>1. Idle \in Flow /\ ~Idle.open
      BY EntryIsPresent DEF Idle
    <3> QED
      BY <1>1, <2>1, <3>1, SetupsStep DEF Inv
  <2>3. created' = n /\ n \in 1..MaxEntries /\ CapInv'
    BY <1>1, <1>3, <2>2 DEF Create, Inv, CapInv
  <2>4. /\ flow[f].data \in Data /\ flow[f].uid = flow[f].data.identity
        /\ flow[f].uid \in Identities
        /\ \A s \in Present : entries[s].uid # flow[f].uid
        /\ flow[f].data.password.of = flow[f].data.user
        /\ <<flow[f].data.user, flow[f].data.identity>> \in Owns
    BY <1>1, <1>3 DEF Sound, Validating, Configured, Data, Create, Validated
  <2>5. entries' = [s \in Slots |-> IF s = n THEN NewEntry(f) ELSE entries[s]]
    BY <1>1, <1>3, <2>4, TypeOfParts DEF Create, Inv
  <2>6. NewEntry(f) \in Entry /\ n \in Slots /\ n \notin Present
    BY <1>1, <2>3, <2>4, TypeOfParts DEF NewEntry, Entry, Slots, Inv
  <2>7. /\ Present' = Present \cup {n}
        /\ \A s \in Present : entries'[s] = entries[s]
        /\ entries'[n] = NewEntry(f)
    BY <2>5, <2>6, EntryIsPresent, TypeOfParts DEF Present, Inv
  <2>8. TypeOK'
    <3>1. flow' \in [Flows -> Flow]
      BY <1>1, EntryIsPresent DEF Becomes
    <3>2. entries' \in [Slots -> Entry \cup {Gone}]
      BY <2>5, <2>6, TypeOfParts DEF Inv
    <3>3. \A s \in Present' : s <= created'
      BY <1>1, <2>3, <2>7, TypeOfParts DEF Inv
    <3> QED
      BY <1>1, <2>3, <3>1, <3>2, <3>3 DEF Inv, TypeOK, Flow
  <2>9. EntriesValidated' /\ OneEntryPerContract'
    <3>1. \A s \in Present : entries[s].uid # NewEntry(f).uid
      BY <2>4 DEF NewEntry
    <3> QED
      BY <2>4, <2>7, <3>1 DEF Inv, EntriesValidated, OneEntryPerContract, NewEntry
  <2>10. SoundInv'
    <3>1. ASSUME NEW g \in Flows PROVE Sound(flow[g])'
      <4>1. CASE g = f
        BY <1>1, <4>1, EntryIsPresent DEF Becomes, Sound, Idle, Validating
      <4>2. CASE g # f
        <5>1. flow'[g] = flow[g] /\ flow[g] \in Flow /\ Sound(flow[g])
          BY <1>1, <4>2 DEF Becomes, Inv, SoundInv
        <5>2. flow[g].open /\ flow[g].uid # NoData => flow[g].uid # flow[f].uid
          BY <1>3, <4>2 DEF Inv, ClaimInv
        <5>3. flow[g].pc \in Validating /\ flow[g].source = "user" /\ flow[g].open =>
                 flow[g].uid = flow[g].data.identity /\ \A s \in Present' : entries'[s].uid # flow[g].uid
          <6>1. ASSUME flow[g].pc \in Validating, flow[g].source = "user", flow[g].open
                PROVE  flow[g].uid = flow[g].data.identity /\ \A s \in Present' : entries'[s].uid # flow[g].uid
            <7>1. flow[g].uid = flow[g].data.identity /\ ~Configured(flow[g].uid) /\ flow[g].data \in Data
              BY <5>1, <6>1 DEF Sound
            <7>2. flow[g].uid # NoData
              BY <7>1, ConfigFlowAssumption DEF Data
            <7>3. NewEntry(f).uid # flow[g].uid
              BY <5>2, <6>1, <7>2 DEF NewEntry
            <7> QED
              BY <2>7, <7>1, <7>3 DEF Configured
          <6> QED
            BY <6>1
        <5>4. flow[g].source # "user" => flow[g].entry \in 1..created /\ flow[g].entry # n
          BY <1>1, <5>1 DEF Sound
        <5>5. flow[g].pc \in Validating /\ flow[g].source # "user" /\ flow[g].entry \in Present' =>
                 flow[g].data.identity = entries'[flow[g].entry].uid
          BY <2>7, <5>1, <5>4 DEF Sound
        <5>6. flow[g].source # "user" => flow[g].entry \in 1..created'
          BY <1>1, <2>3, <5>4
        <5> QED
          BY <5>1, <5>3, <5>5, <5>6 DEF Sound, Configured
      <4> QED
        BY <4>1, <4>2
    <3> QED
      BY <3>1 DEF SoundInv
  <2>11. ClaimInv'
    BY <1>1, EntryIsPresent DEF Inv, ClaimInv, Becomes, Idle
  <2> QED
    BY <2>3, <2>7, <2>8, <2>9, <2>10, <2>11 DEF Inv
<1> QED
  BY <1>2, <1>3

\* An updated entry keeps its id; what is stored was validated and is about it.
LEMMA UpdateKeepsInv ==
    ASSUME Inv, NEW f \in Flows, Update(f)
    PROVE  Inv'
<1> DEFINE e == flow[f].entry
<1>1. /\ flow[f] \in Flow /\ Sound(flow[f]) /\ flow[f].source # "user" /\ flow[f].pc = "contract"
      /\ Becomes(f, Idle) /\ secret' = secret /\ created' = created
      /\ flow \in [Flows -> Flow] /\ created \in 0..MaxEntries /\ MaxEntries \in Nat
  BY TypeOfParts, ConfigFlowAssumption DEF Inv, SoundInv, Update, Validated
<1>2. CASE e \notin Present
  BY <1>1, <1>2, OverKeepsInv DEF Update
<1>3. CASE e \in Present
  <2>1. /\ flow[f].data \in Data /\ flow[f].data.identity = entries[e].uid
        /\ flow[f].data.password.of = flow[f].data.user
        /\ <<flow[f].data.user, flow[f].data.identity>> \in Owns
    BY <1>1, <1>3 DEF Sound, Validating, Update, Validated
  <2>2. entries' = [entries EXCEPT ![e].data = flow[f].data] /\ e \in Slots /\ entries[e] \in Entry
    BY <1>3, TypeOfParts DEF Update, Stored, Inv
  <2>3. entries \in [Slots -> Entry \cup {Gone}]
    BY TypeOfParts DEF Inv
  <2>4. /\ entries'[e] = [entries[e] EXCEPT !.data = flow[f].data]
        /\ entries'[e] \in Entry /\ entries'[e].uid = entries[e].uid /\ entries'[e].data = flow[f].data
        /\ \A s \in Slots \ {e} : entries'[s] = entries[s]
    BY <2>1, <2>2, <2>3 DEF Entry
  <2>5. Present' = Present /\ \A s \in Present : entries'[s].uid = entries[s].uid
    BY <1>3, <2>4, EntryIsPresent DEF Present
  <2>6. TypeOK'
    <3>1. flow' \in [Flows -> Flow]
      BY <1>1, EntryIsPresent DEF Becomes
    <3>2. entries' \in [Slots -> Entry \cup {Gone}]
      BY <2>2, <2>3, <2>4
    <3> QED
      BY <1>1, <2>5, <3>1, <3>2 DEF Inv, TypeOK, Flow
  <2>7. EntriesValidated' /\ OneEntryPerContract'
    <3>1. \A s \in Present : s # e => entries'[s] = entries[s]
      BY <2>4 DEF Present
    <3>2. /\ EntriesValidated
          /\ \A s \in Present : entries[s].uid = entries[s].data.identity
          /\ \A s, t \in Present : entries[s].uid = entries[t].uid => s = t
      BY DEF Inv, OneEntryPerContract
    <3>3. EntriesValidated'
      BY <2>1, <2>4, <2>5, <3>1, <3>2 DEF EntriesValidated
    <3>4. \A s \in Present : entries'[s].uid = entries'[s].data.identity
      BY <2>1, <2>4, <3>1, <3>2
    <3>5. \A s, t \in Present : entries'[s].uid = entries'[t].uid => s = t
      BY <2>5, <3>2
    <3> QED
      BY <2>5, <3>3, <3>4, <3>5 DEF OneEntryPerContract
  <2>8. SoundInv'
    <3>1. \A w : Sound(w) => Sound(w)'
      BY <1>1, <2>5 DEF Sound, Configured
    <3>2. Sound(Idle)'
      BY EntryIsPresent DEF Idle, Sound, Validating
    <3> QED
      BY <1>1, <3>1, <3>2 DEF Inv, SoundInv, Becomes
  <2>9. ClaimInv'
    BY <1>1, EntryIsPresent DEF Inv, ClaimInv, Becomes, Idle
  <2>10. CapInv'
    <3>1. Idle \in Flow /\ ~Idle.open
      BY EntryIsPresent DEF Idle
    <3>2. Cardinality(Setups') <= Cardinality(Setups) /\ Cardinality(Setups) \in Nat /\ Cardinality(Setups') \in Nat
      BY <1>1, <3>1, SetupsStep DEF Inv
    <3> QED
      BY <1>1, <3>2 DEF Inv, CapInv
  <2> QED
    BY <2>6, <2>7, <2>8, <2>9, <2>10 DEF Inv
<1> QED
  BY <1>2, <1>3

\* A removed entry frees its id and closes its reauthentication.
LEMMA RemoveKeepsInv ==
    ASSUME Inv, NEW s \in Slots, Remove(s)
    PROVE  Inv'
<1> DEFINE hit(f) == flow[f].open /\ flow[f].source = "reauth" /\ flow[f].entry = s
<1>1. /\ flow \in [Flows -> Flow] /\ entries \in [Slots -> Entry \cup {Gone}]
      /\ flow' = [f \in Flows |-> IF hit(f) THEN Closed(f) ELSE flow[f]]
      /\ entries' = [entries EXCEPT ![s] = Gone]
      /\ created' = created /\ secret' = secret
  BY TypeOfParts DEF Inv, Remove
<1>2. Present' = Present \ {s} /\ \A t \in Present' : entries'[t] = entries[t]
  BY <1>1 DEF Present
<1>3. flow' \in [Flows -> Flow]
  BY <1>1, ClosedIsSound
<1>4. TypeOK'
  <2>1. entries' \in [Slots -> Entry \cup {Gone}]
    BY <1>1
  <2> QED
    BY <1>1, <1>2, <1>3, <2>1 DEF Inv, TypeOK, Flow
<1>5. SoundInv'
  <2>1. \A w : Sound(w) => Sound(w)'
    BY <1>1, <1>2 DEF Sound, Configured
  <2>2. \A f \in Flows : Sound(flow'[f])
    BY <1>1, ClosedIsSound DEF Inv, SoundInv
  <2> QED
    BY <2>1, <2>2 DEF SoundInv
<1>6. \A f \in Flows : flow'[f].open => flow'[f] = flow[f]
  BY <1>1, ClosedIsSound
<1>7. ClaimInv'
  BY <1>6 DEF Inv, ClaimInv
<1>8. CapInv'
  <2>1. Setups' = Setups
    BY <1>1, <1>6 DEF Setups
  <2> QED
    BY <1>1, <2>1 DEF Inv, CapInv
<1>9. EntriesValidated' /\ OneEntryPerContract'
  BY <1>2 DEF Inv, EntriesValidated, OneEntryPerContract
<1> QED
  BY <1>4, <1>5, <1>7, <1>8, <1>9 DEF Inv

-------------------------------------------------------------------------------
LEMMA InitInv == Init => Inv
<1> SUFFICES ASSUME Init PROVE Inv
  OBVIOUS
<1>1. TypeOK
  BY EntryIsPresent, ConfigFlowAssumption DEF Init, TypeOK, Flow, Present
<1>2. Present = {} /\ Setups = {}
  BY DEF Init, Present, Setups, Idle
<1>3. CapInv
  BY <1>2, FS_EmptySet, ConfigFlowAssumption DEF Init, CapInv
<1>4. SoundInv /\ ClaimInv
  BY DEF Init, SoundInv, ClaimInv, Sound, Idle, Validating
<1> QED
  BY <1>1, <1>2, <1>3, <1>4 DEF Inv, EntriesValidated, OneEntryPerContract

LEMMA NextKeepsInv == Inv /\ [Next]_vars => Inv'
<1> SUFFICES ASSUME Inv, [Next]_vars PROVE Inv'
  OBVIOUS
<1>1. ASSUME NEW f \in Flows, StartUser(f) PROVE Inv'
  BY <1>1, OpensKeepsInv, ConfigFlowAssumption DEF StartUser
<1>2. ASSUME NEW f \in Flows, NEW s \in Slots, StartReauth(f, s) \/ StartReconfigure(f, s) PROVE Inv'
  <2>1. s \in 0..MaxEntries
    BY ConfigFlowAssumption DEF Slots
  <2> QED
    BY <1>2, <2>1, OpensKeepsInv DEF StartReauth, StartReconfigure
<1>3. ASSUME NEW f \in Flows, NotValidated(f) PROVE Inv'
  BY <1>3, ReformKeepsInv DEF NotValidated
<1>4. ASSUME NEW u \in Users, ChangePassword(u) PROVE Inv'
  <2>1. secret' \in [Users -> 0..MaxChanges] /\ UNCHANGED <<entries, created, flow>>
    BY <1>4, ConfigFlowAssumption DEF ChangePassword, Inv, TypeOK
  <2>2. Present' = Present /\ Setups' = Setups
    BY <2>1 DEF Present, Setups
  <2>3. TypeOK' /\ CapInv' /\ ClaimInv'
    BY <2>1, <2>2 DEF Inv, TypeOK, CapInv, ClaimInv
  <2>4. SoundInv' /\ EntriesValidated' /\ OneEntryPerContract'
    BY <2>1, <2>2 DEF Inv, SoundInv, Sound, Configured, EntriesValidated, OneEntryPerContract
  <2> QED
    BY <2>3, <2>4 DEF Inv
<1>5. CASE UNCHANGED vars
  <2>1. UNCHANGED <<entries, created, flow, secret>> /\ Present' = Present /\ Setups' = Setups
    BY <1>5 DEF vars, Present, Setups
  <2>2. TypeOK' /\ CapInv' /\ ClaimInv'
    BY <2>1 DEF Inv, TypeOK, CapInv, ClaimInv
  <2>3. SoundInv' /\ EntriesValidated' /\ OneEntryPerContract'
    BY <2>1 DEF Inv, SoundInv, Sound, Configured, EntriesValidated, OneEntryPerContract
  <2> QED
    BY <2>2, <2>3 DEF Inv
<1> QED
  BY <1>1, <1>2, <1>3, <1>4, <1>5, SubmitKeepsInv, LoggedInKeepsInv, CreateKeepsInv,
     UpdateKeepsInv, CloseKeepsInv, RemoveKeepsInv DEF Next

\* The inductive invariant holds: what a flow read before its validation is
\* still true when it ends (config_flow.py:138-217).
THEOREM ConfigFlowInv == Spec => []Inv
<1>1. Init => Inv
  BY InitInv
<1>2. Inv /\ [Next]_vars => Inv'
  BY NextKeepsInv
<1> QED
  BY <1>1, <1>2, PTL DEF Spec

\* The type invariant, for any number of flows, accounts and contracts.
THEOREM ConfigFlowTypeCorrect == Spec => []TypeOK
<1>1. Inv => TypeOK
  BY DEF Inv
<1> QED
  BY <1>1, ConfigFlowInv, PTL

\* What an entry holds was accepted by the portal as a whole, whichever flows
\* overlap (config_flow.py:172-175, 211-217).
THEOREM StoredDataWereValidated == Spec => []EntriesValidated
<1>1. Inv => EntriesValidated
  BY DEF Inv
<1> QED
  BY <1>1, ConfigFlowInv, PTL

\* No two entries are about the same contract (config_flow.py:143-144, 208-209).
THEOREM ContractsAreDistinct == Spec => []OneEntryPerContract
<1>1. Inv => OneEntryPerContract
  BY DEF Inv
<1> QED
  BY <1>1, ConfigFlowInv, PTL

\* Only Create takes a slot, and it leaves every entry there is alone: no entry
\* is ever replaced by a new one of its unique id (config_flow.py:144-151).
THEOREM CreationReplacesNothing == Spec => NoEntryReplaced
<1> DEFINE Kept == created' # created => \A s \in Present : entries'[s] = entries[s]
<1>1. Inv /\ [Next]_vars => Kept
  <2> SUFFICES ASSUME Inv, [Next]_vars PROVE Kept
    OBVIOUS
  <2>1. ASSUME NEW f \in Flows, Create(f) PROVE Kept
    BY <2>1, CreateKeepsInv
  <2>2. CASE ~\E f \in Flows : Create(f)
    <3>1. created' = created
      BY <2>2 DEF Next, vars, StartUser, StartReauth, StartReconfigure, Opens, SubmitUser, SubmitReauth,
         SubmitReconfigure, RefuseIdentity, LoggedIn, NotValidated, Update, Close, Remove,
         ChangePassword, Abort, Reform, Validate
    <3> QED
      BY <3>1
  <2> QED
    BY <2>1, <2>2
<1>2. Inv /\ [Next]_vars => [Kept]_vars
  BY <1>1
<1> QED
  BY <1>2, ConfigFlowInv, PTL DEF Spec, NoEntryReplaced
===============================================================================
