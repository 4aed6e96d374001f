------------------------------- MODULE ConfigFlow -------------------------------
(***************************************************************************)
(* The config flow (config_flow.py): users set an entry up, change its     *)
(* e-mail address, or give the new password of an account, in forms that   *)
(* may be open at the same time.  A submitted form is validated by two     *)
(* requests to the portal, and other flows may end in between.             *)
(*                                                                         *)
(* The flow manager of Home Assistant is modelled from how the flow uses   *)
(* it: an identity is claimed while a flow that set it is in progress,     *)
(* reauthentication excepted; an entry that is created replaces one of the *)
(* same unique id; a flow the user closes while it waits runs on, but its  *)
(* entry is not created any more.  A malformed contract number only shows  *)
(* the form again and is left out.                                         *)
(***************************************************************************)
EXTENDS Naturals, FiniteSets

CONSTANTS Flows,      \* forms that may be open at the same time
          Providers, Contracts,
          Users,      \* accounts of the portal
          Owns,       \* <<user, identity>>: the contracts of an account
          NoData,     \* stands for the data of a form not submitted
          MaxEntries, \* bound: the entries ever created
          MaxChanges  \* bound: how often the password of an account changes

Identities == [provider : Providers, contract : Contracts]
Passwords == [of : Users, no : 0..MaxChanges]
Data == [user : Users, password : Passwords, identity : Identities]
Slots == 1..MaxEntries

ASSUME ConfigFlowAssumption ==
    /\ IsFiniteSet(Flows)
    /\ Owns \subseteq Users \X Identities
    /\ NoData \notin Data \cup Identities
    /\ MaxEntries \in Nat /\ MaxChanges \in Nat

VARIABLES
    entries,  \* the entry of each slot: unique id and data, Gone for none
    created,  \* the slots taken so far; none is taken twice
    flow,     \* each flow in progress
    secret    \* portal: how often the password of each account changed

vars == <<entries, created, flow, secret>>

Gone == [uid |-> NoData, data |-> NoData]
Entry == [uid : Identities, data : Data]
Present == {s \in Slots : entries[s] # Gone}

\* "form" waits for the user, "login" and "contract" for the portal, and
\* "mismatch" is the message a reconfiguration was aborted with.
Idle == [pc |-> "idle", source |-> "user", entry |-> 0, uid |-> NoData,
         data |-> NoData, open |-> FALSE]
Points == {"idle", "mismatch", "form", "login", "contract"}

\* The flows that may still create an entry.
Setups == {f \in Flows : flow[f].source = "user" /\ flow[f].open}

TypeOK ==
    /\ entries \in [Slots -> Entry \cup {Gone}]
    /\ created \in 0..MaxEntries
    /\ flow \in [Flows -> [pc : Points,
                           source : {"user", "reauth", "reconfigure"},
                           entry : 0..MaxEntries,
                           uid : Identities \cup {NoData},
                           data : Data \cup {NoData},
                           open : BOOLEAN]]
    /\ secret \in [Users -> 0..MaxChanges]
    /\ \A s \in Present : s <= created

Init ==
    /\ entries = [s \in Slots |-> Gone]
    /\ created = 0
    /\ flow = [f \in Flows |-> Idle]
    /\ secret = [u \in Users |-> 0]

-------------------------------------------------------------------------------
Password(u) == [of |-> u, no |-> secret[u]]

\* async_set_unique_id: another flow in progress has set it.
Claimed(f, id) ==
    \E g \in Flows \ {f} : flow[g].open /\ flow[g].uid = id

\* Bugs: _abort_if_unique_id_configured, _abort_if_unique_id_mismatch forgotten.
ConfiguredIgnored(id) == FALSE
MismatchIgnored(f, id) == FALSE

Configured(id) == \E s \in Present : entries[s].uid = id
Mismatch(f, id) == entries[flow[f].entry].uid # id

Becomes(f, new) == flow' = [flow EXCEPT ![f] = new]

\* The flow ends; its entry, if any, is as it was.
Abort(f) == Becomes(f, Idle) /\ UNCHANGED <<entries, created>>

\* The form is shown again; nobody looks at that of a closed flow.
Reform(f) ==
    /\ Becomes(f, IF flow[f].open THEN [flow[f] EXCEPT !.pc = "form", !.data = NoData] ELSE Idle)
    /\ UNCHANGED <<entries, created>>

Validate(f, uid, data) ==
    /\ Becomes(f, [flow[f] EXCEPT !.pc = "login", !.uid = uid, !.data = data])
    /\ UNCHANGED <<entries, created>>

Opens(f, source, s) ==
    /\ flow[f].pc \in {"idle", "mismatch"}
    /\ Becomes(f, [Idle EXCEPT !.pc = "form", !.source = source, !.entry = s, !.open = TRUE])
    /\ UNCHANGED <<entries, created, secret>>

StartUser(f) ==
    /\ created + Cardinality(Setups) < MaxEntries
    /\ Opens(f, "user", 0)

\* async_start_reauth: the portal refuses the password of the entry, and no
\* other flow is about it.
StartReauth(f, s) ==
    /\ s \in Present
    /\ entries[s].data.password # Password(entries[s].data.user)
    /\ \A g \in Flows : ~(flow[g].open /\ flow[g].entry = s)
    /\ Opens(f, "reauth", s)

StartReconfigure(f, s) ==
    /\ s \in Present
    /\ Opens(f, "reconfigure", s)

-------------------------------------------------------------------------------
\* The user submits a form.

AtForm(f, source) == flow[f].pc = "form" /\ flow[f].source = source

SubmitUser(f, d) ==
    /\ AtForm(f, "user")
    /\ IF Claimed(f, d.identity) \/ Configured(d.identity)
       THEN Abort(f)
       ELSE Validate(f, d.identity, d)
    /\ UNCHANGED secret

\* The password is merged into the data the entry has now.
SubmitReauth(f, p) ==
    /\ AtForm(f, "reauth") /\ flow[f].entry \in Present
    /\ Validate(f, NoData, [entries[flow[f].entry].data EXCEPT !.password = p])
    /\ UNCHANGED secret

SubmitReconfigure(f, d) ==
    /\ AtForm(f, "reconfigure") /\ flow[f].entry \in Present
    /\ ~Mismatch(f, d.identity)
    /\ IF Claimed(f, d.identity) THEN Abort(f) ELSE Validate(f, d.identity, d)
    /\ UNCHANGED secret

\* Another contract or provider than that of the entry.
RefuseIdentity(f, d) ==
    /\ AtForm(f, "reconfigure") /\ flow[f].entry \in Present
    /\ ~Claimed(f, d.identity) /\ Mismatch(f, d.identity)
    /\ Becomes(f, [Idle EXCEPT !.pc = "mismatch", !.uid = d.identity])
    /\ UNCHANGED <<entries, created, secret>>

-------------------------------------------------------------------------------
\* _validate_credentials: client.authenticate(), then client.check_contract().

LoggedIn(f) ==
    /\ flow[f].pc = "login"
    /\ flow[f].data.password = Password(flow[f].data.user)
    /\ Becomes(f, [flow[f] EXCEPT !.pc = "contract"])
    /\ UNCHANGED <<entries, created, secret>>

\* A refused password or a contract of another account; or the portal cannot
\* be reached, at any time.
NotValidated(f) ==
    /\ flow[f].pc \in {"login", "contract"}
    /\ Reform(f)
    /\ UNCHANGED secret

Validated(f) ==
    /\ flow[f].pc = "contract"
    /\ <<flow[f].data.user, flow[f].data.identity>> \in Owns

\* Bug: the unique id was never set.
NewEntryPlain(f) == [uid |-> NoData, data |-> flow[f].data]

NewEntry(f) == [uid |-> flow[f].uid, data |-> flow[f].data]

\* async_create_entry: the manager replaces an entry of the same unique id.
Create(f) ==
    /\ Validated(f) /\ flow[f].source = "user"
    /\ Becomes(f, Idle)
    /\ IF flow[f].open
       THEN /\ created' = created + 1
            /\ entries' = [s \in Slots |->
                 CASE s = created + 1 -> NewEntry(f)
                   [] s \in Present /\ entries[s].uid = flow[f].uid -> Gone
                   [] OTHER -> entries[s]]
       ELSE UNCHANGED <<entries, created>>
    /\ UNCHANGED secret

\* Bug: reauthentication merges the password into what the entry holds by now.
StoredMerged(f) ==
    IF flow[f].source = "reauth"
    THEN [entries[flow[f].entry].data EXCEPT !.password = flow[f].data.password]
    ELSE flow[f].data

Stored(f) == flow[f].data

\* async_update_reload_and_abort; it raises when the entry was removed.
Update(f) ==
    /\ Validated(f) /\ flow[f].source # "user"
    /\ Becomes(f, Idle)
    /\ entries' = IF flow[f].entry \in Present
                  THEN [entries EXCEPT ![flow[f].entry].data = Stored(f)]
                  ELSE entries
    /\ UNCHANGED <<created, secret>>

-------------------------------------------------------------------------------
Closed(f) ==
    IF flow[f].pc = "form" THEN Idle ELSE [flow[f] EXCEPT !.open = FALSE, !.uid = NoData]

\* The user closes the dialog of a flow.
Close(f) ==
    /\ flow[f].open
    /\ Becomes(f, Closed(f))
    /\ UNCHANGED <<entries, created, secret>>

\* The user removes an entry; a reauthentication of it is closed.
Remove(s) ==
    /\ s \in Present
    /\ entries' = [entries EXCEPT ![s] = Gone]
    /\ flow' = [f \in Flows |->
                  IF flow[f].open /\ flow[f].source = "reauth" /\ flow[f].entry = s
                  THEN Closed(f) ELSE flow[f]]
    /\ UNCHANGED <<created, secret>>

ChangePassword(u) ==
    /\ secret[u] < MaxChanges
    /\ secret' = [secret EXCEPT ![u] = @ + 1]
    /\ UNCHANGED <<entries, created, flow>>

Next ==
    \/ \E f \in Flows :
          \/ StartUser(f) \/ LoggedIn(f) \/ NotValidated(f) \/ Create(f) \/ Update(f) \/ Close(f)
          \/ \E s \in Slots : StartReauth(f, s) \/ StartReconfigure(f, s)
          \/ \E p \in Passwords : SubmitReauth(f, p)
          \/ \E d \in Data : SubmitUser(f, d) \/ SubmitReconfigure(f, d) \/ RefuseIdentity(f, d)
    \/ \E s \in Slots : Remove(s)
    \/ \E u \in Users : ChangePassword(u)

Spec == Init /\ [][Next]_vars

-------------------------------------------------------------------------------
\* Properties.

\* The data of an entry was accepted by the portal as a whole: its password was
\* one of its own account, which has the contract.  Reauthentication merges
\* data of two moments and must validate what it stores (config_flow.py:172-175).
EntriesValidated ==
    \A s \in Present :
        LET d == entries[s].data IN
        d.password.of = d.user /\ <<d.user, d.identity>> \in Owns

\* Two entries are never about the same contract, and the unique id of an entry
\* tells which one it is about, whatever flows change it and in whatever order
\* they end (config_flow.py:140-144, 206-209).
OneEntryPerContract ==
    \A s, t \in Present :
        /\ entries[s].uid = entries[s].data.identity
        /\ entries[s].uid = entries[t].uid => s = t

\* Setting an entry up never costs another one, with its history: the manager
\* would replace an entry of the same unique id (config_flow.py:144).
NoEntryReplaced ==
    [][created' # created => \A s \in Present : entries'[s] = entries[s]]_vars
===============================================================================
