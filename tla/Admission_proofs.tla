----------------------------- MODULE Admission_proofs -----------------------------
(***************************************************************************)
(* Proofs about modules Accounts and Admission, for any calls, names,      *)
(* projects, requests, limits and minutes.  Of the accounts: the types,    *)
(* that racing calls get the names they should, and that projects and keys *)
(* stay with their workspace.  Of the requests: the types, that one acts   *)
(* for the project its key was generated for, that no counter is left      *)
(* without a TTL unseen, and that the rate limit is exact.                 *)
(***************************************************************************)
EXTENDS Admission, FiniteSetTheorems, TLAPS

-------------------------------------------------------------------------------
(* Accounts                                                                 *)

Naming   == {"slug", "insert"}
Changing == {"own", "read", "write"}

\* What the call c may have in hand, as a record s of CallState: it has not
\* written its row yet, it carries what its kind needs, a call that looks for
\* a name has seen every smaller suffix taken, and one past its ownership check
\* names a project of its workspace.
Fits(c, s) ==
    /\ s.pc = "idle" => s = IdleCall
    /\ s.pc # "done" =>
          /\ workspace[c] = None
          /\ project[c] = None
    /\ s.pc = "email" => s.kind = "register"
    /\ s.pc \in Naming \cup {"email"} =>
          /\ s.base \in Bases
          /\ s.kind \in {"register", "create"}
          /\ s.kind = "register" => s.email \in Emails
          /\ s.kind = "create" => s.workspace \in Workspaces
          /\ \A n \in 0..(s.suffix - 1) : Taken(s, n)
    /\ s.pc \in Changing =>
          /\ s.kind \in {"update", "rotate", "configure"}
          /\ s.project \in Projects
          /\ s.workspace \in Workspaces
    /\ s.pc \in {"read", "write"} =>
          /\ IsProject(s.project)
          /\ project[s.project].workspace = s.workspace

CallsFit == \A c \in Calls : Fits(c, call[c])

KeysIssued == \A p \in Projects : IsProject(p) => IssuedFor(project[p].apiKey, p)

\* The inductive invariant.
IInv == AccountsTypeOK /\ CallsFit /\ KeysIssued /\ NamesUnique /\ SuffixesNeeded

LEMMA IInvIsEnough == IInv => AccountsTypeOK /\ NamesAssigned /\ ProjectsApart
  BY DEF IInv, CallsFit, Fits, KeysIssued, NamesAssigned, ProjectsApart

LEMMA InitIInv == AccountsInit => IInv
<1> SUFFICES ASSUME AccountsInit PROVE IInv
  OBVIOUS
<1> USE AccountsAssumption, RowsAssumption DEF AccountsInit
<1>1. AccountsTypeOK
  <2>1. [base |-> SiteBase, suffix |-> 0, email |-> Owner] \in WorkspaceRow
    BY DEF WorkspaceRow
  <2>2. [NoConfig EXCEPT !.custom = TRUE] \in Config
    BY DEF NoConfig, Config, HostLists
  <2>3. [workspace |-> Home, base |-> SiteBase, suffix |-> 0, apiKey |-> Site,
         domain |-> None, config |-> [NoConfig EXCEPT !.custom = TRUE]] \in ProjectRow
    BY <2>2 DEF ProjectRow, Workspaces, Keys
  <2>4. IdleCall \in CallState
    BY DEF IdleCall, CallState, EmptyDto, ConfigDto, NoConfig, Config, HostLists
  <2> QED BY <2>1, <2>3, <2>4 DEF AccountsTypeOK
<1>2. CallsFit
  BY DEF CallsFit, Fits, IdleCall, Workspaces, Projects, Naming, Changing
<1>3. KeysIssued
  BY DEF KeysIssued, IsProject, IssuedFor, Projects
<1>4. NamesUnique
  BY DEF NamesUnique, IsWorkspace, IsProject
<1>5. SuffixesNeeded
  BY DEF SuffixesNeeded, IsWorkspace, IsProject
<1> QED BY <1>1, <1>2, <1>3, <1>4, <1>5 DEF IInv

-------------------------------------------------------------------------------
\* Rows keep their names: whatever was there is there, under the same name.
NamesStay ==
    /\ \A w \in Workspaces : IsWorkspace(w) => workspace'[w] = workspace[w]
    /\ \A p \in Projects : IsProject(p) =>
          /\ project'[p] # None
          /\ project'[p].workspace = project[p].workspace
          /\ SlugOf(project'[p]) = SlugOf(project[p])

LEMMA TakenStays ==
  ASSUME NamesStay, NEW s, NEW n, Taken(s, n)
  PROVE  Taken(s, n)'
  BY DEF NamesStay, Taken, IsWorkspace, IsProject

\* A step of c that leaves the tables alone: what it has in hand then decides.
LEMMA CallMoves ==
  ASSUME IInv, NEW c \in Calls, NEW s \in CallState,
         call' = [call EXCEPT ![c] = s], UNCHANGED <<workspace, project>>,
         Fits(c, s),
         call[c].pc = "idle" \/ (/\ s.kind = call[c].kind
                                 /\ s.workspace = call[c].workspace
                                 /\ s.project = call[c].project)
  PROVE  IInv'
<1>0. call \in [Calls -> CallState] BY DEF IInv, AccountsTypeOK
<1>1. AccountsTypeOK' BY <1>0 DEF IInv, AccountsTypeOK
<1>2. CallsFit'
  <2>1. call'[c] = s /\ \A d \in Calls \ {c} : call'[d] = call[d] BY <1>0
  <2>2. ASSUME NEW d \in Calls, NEW t, Fits(d, t) PROVE Fits(d, t)'
    <3>1. NamesStay BY DEF NamesStay, IsWorkspace, IsProject
    <3> QED BY <2>2, <3>1, TakenStays DEF Fits, IsProject
  <2> QED BY <2>1, <2>2 DEF IInv, CallsFit
<1>3. KeysIssued'
  <2>1. ASSUME NEW p \in Projects, IsProject(p) PROVE IssuedFor(project[p].apiKey, p)'
    <3> DEFINE k == project[p].apiKey
    <3>1. IssuedFor(k, p) BY <2>1 DEF IInv, KeysIssued
    <3>2. CASE k = c /\ call[c].pc = "idle"
      <4>1. call[c] = IdleCall BY <3>2 DEF IInv, CallsFit, Fits
      <4>2. call[c].project # p
        BY <4>1, AccountsAssumption DEF IdleCall, Projects
      <4> QED BY <3>1, <3>2, <4>2 DEF IssuedFor
    <3>3. CASE ~(k = c /\ call[c].pc = "idle")
      BY <1>0, <3>1, <3>3 DEF IssuedFor, IsProject
    <3> QED BY <3>2, <3>3
  <2> QED BY <2>1 DEF KeysIssued, IsProject
<1>4. NamesUnique' /\ SuffixesNeeded'
  BY DEF IInv, NamesUnique, SuffixesNeeded, IsWorkspace, IsProject
<1> QED BY <1>1, <1>2, <1>3, <1>4 DEF IInv

\* The answer of a call leaves nothing in hand.
LEMMA EndedCall ==
  ASSUME IInv, NEW c \in Calls, NEW pc \in {"done", "refused", "failed"}
  PROVE  /\ Ended(c, pc) \in CallState
         /\ Ended(c, pc).pc = pc
         /\ Ended(c, pc).kind = call[c].kind
         /\ Ended(c, pc).workspace = call[c].workspace
         /\ Ended(c, pc).project = call[c].project
<1>1. call[c] \in CallState BY DEF IInv, AccountsTypeOK
<1>2. /\ call[c].kind \in Kinds \cup {None}
      /\ call[c].workspace \in Workspaces \cup {None}
      /\ call[c].project \in Projects \cup {None}
  BY <1>1 DEF CallState
<1>3. IdleCall \in CallState
  BY AccountsAssumption DEF IdleCall, CallState, EmptyDto, ConfigDto, NoConfig, Config, HostLists
<1> QED BY <1>2, <1>3 DEF CallState, Ended

LEMMA StartIInv ==
  ASSUME IInv, NEW c \in Calls, StartCall(c)
  PROVE  IInv'
<1>0. /\ call[c] = IdleCall /\ call[c] \in CallState
      /\ workspace[c] = None /\ project[c] = None
  BY DEF StartCall, IInv, CallsFit, Fits, AccountsTypeOK
<1>s. call[c].suffix = 0 /\ call[c].pc = "idle" BY <1>0 DEF IdleCall
<1>1. CASE "register" \in Kinds /\ Register(c)
  <2>1. PICK email \in Emails, base \in Bases :
          call' = [call EXCEPT ![c] = [@ EXCEPT !.pc = "email",
                      !.kind = "register", !.email = email, !.base = base]]
    BY <1>1 DEF Register
  <2> DEFINE s == [call[c] EXCEPT !.pc = "email", !.kind = "register",
                                  !.email = email, !.base = base]
  <2>2. /\ s \in CallState /\ s.pc = "email" /\ s.kind = "register"
        /\ s.email = email /\ s.base = base /\ s.suffix = 0
    BY <1>0, <1>s, <1>1 DEF CallState
  <2>3. call' = [call EXCEPT ![c] = s] BY <2>1
  <2> HIDE DEF s
  <2>4. Fits(c, s) BY <1>0, <2>2 DEF Fits, Naming, Changing
  <2> QED BY <1>0, <2>2, <2>3, <2>4, <1>s, CallMoves DEF StartCall
<1>2. CASE "create" \in Kinds /\ CreateProject(c)
  <2>1. PICK w \in Workspaces, base \in Bases, domain \in Domains \cup {None} :
          call' = [call EXCEPT ![c] = [@ EXCEPT !.pc = "slug", !.kind = "create",
                       !.workspace = w, !.base = base, !.domain = domain]]
    BY <1>2 DEF CreateProject
  <2> DEFINE s == [call[c] EXCEPT !.pc = "slug", !.kind = "create",
                       !.workspace = w, !.base = base, !.domain = domain]
  <2>2. /\ s \in CallState /\ s.pc = "slug" /\ s.kind = "create"
        /\ s.workspace = w /\ s.base = base /\ s.suffix = 0
    BY <1>0, <1>s, <1>2 DEF CallState
  <2>3. call' = [call EXCEPT ![c] = s] BY <2>1
  <2> HIDE DEF s
  <2>4. Fits(c, s) BY <1>0, <2>2 DEF Fits, Naming, Changing
  <2> QED BY <1>0, <2>2, <2>3, <2>4, <1>s, CallMoves DEF StartCall
<1>3. ASSUME NEW kind \in Kinds \cap {"update", "rotate", "configure"},
             ChangeProject(c, kind)
      PROVE  IInv'
  <2>1. PICK w \in Workspaces, p \in Projects, domain \in Domains \cup {None},
             dto \in ConfigDto :
          /\ workspace[w] # None
          /\ kind # "update" => domain = None
          /\ kind # "configure" => dto = EmptyDto
          /\ call' = [call EXCEPT ![c] = [@ EXCEPT !.pc = "own", !.kind = kind,
                       !.workspace = w, !.project = p, !.domain = domain,
                       !.dto = dto]]
    BY <1>3 DEF ChangeProject
  <2> DEFINE s == [call[c] EXCEPT !.pc = "own", !.kind = kind, !.workspace = w,
                       !.project = p, !.domain = domain, !.dto = dto]
  <2>2. /\ s \in CallState /\ s.pc = "own" /\ s.kind = kind
        /\ s.workspace = w /\ s.project = p
    BY <1>0 DEF CallState
  <2>3. call' = [call EXCEPT ![c] = s] BY <2>1
  <2> HIDE DEF s
  <2>4. Fits(c, s) BY <1>0, <2>2 DEF Fits, Naming, Changing
  <2> QED BY <1>0, <2>2, <2>3, <2>4, <1>s, CallMoves DEF StartCall
<1> QED BY <1>1, <1>2, <1>3 DEF StartCall

\* A refused or failed call.
LEMMA EndIInv ==
  ASSUME IInv, NEW c \in Calls, NEW pc \in {"refused", "failed"}, EndCall(c, pc),
         call[c].pc \notin {"idle", "done"}, UNCHANGED <<workspace, project>>
  PROVE  IInv'
<1> DEFINE s == Ended(c, pc)
<1>1. /\ s \in CallState /\ s.pc = pc
      /\ s.kind = call[c].kind /\ s.workspace = call[c].workspace
      /\ s.project = call[c].project
  BY EndedCall
<1>2. call' = [call EXCEPT ![c] = s] BY DEF EndCall
<1> HIDE DEF s
<1>3. Fits(c, s) BY <1>1 DEF Fits, IInv, CallsFit, Naming, Changing
<1> QED BY <1>1, <1>2, <1>3, CallMoves

LEMMA CheckEmailIInv ==
  ASSUME IInv, NEW c \in Calls, CheckEmail(c)
  PROVE  IInv'
<1>1. CASE EndCall(c, "refused") BY <1>1, EndIInv DEF CheckEmail
<1>2. CASE CallTo(c, "slug")
  <2> DEFINE s == [call[c] EXCEPT !.pc = "slug"]
  <2>1. call[c] \in CallState BY DEF IInv, AccountsTypeOK
  <2>2. /\ s \in CallState /\ s.pc = "slug"
        /\ s.kind = call[c].kind /\ s.workspace = call[c].workspace
        /\ s.project = call[c].project /\ s.base = call[c].base
        /\ s.suffix = call[c].suffix /\ s.email = call[c].email
    BY <2>1 DEF CallState
  <2>3. call' = [call EXCEPT ![c] = s] BY <1>2 DEF CallTo
  <2> HIDE DEF s
  <2>4. Fits(c, s) BY <2>2 DEF CheckEmail, IInv, CallsFit, Fits, Naming, Changing, Taken
  <2> QED BY <2>2, <2>3, <2>4, CallMoves DEF CheckEmail
<1> QED BY <1>1, <1>2 DEF CheckEmail

LEMMA CheckSlugIInv ==
  ASSUME IInv, NEW c \in Calls, CheckSlug(c)
  PROVE  IInv'
<1>0. call[c] \in CallState /\ call[c].pc = "slug" BY DEF IInv, AccountsTypeOK, CheckSlug
<1>f. Fits(c, call[c]) BY DEF IInv, CallsFit
<1>1. CASE Taken(call[c], call[c].suffix)
  <2> DEFINE n == call[c].suffix + 1
  <2> DEFINE s == [call[c] EXCEPT !.suffix = n]
  <2>1. n \in Nat /\ \A m \in 0..(n - 1) : m \in 0..(call[c].suffix - 1) \/ m = call[c].suffix
    BY <1>0 DEF CallState
  <2>3. call' = [call EXCEPT ![c] = s] BY <1>1 DEF CheckSlug
  <2> HIDE DEF n
  <2>2. /\ s \in CallState /\ s.pc = "slug" /\ s.suffix = n
        /\ s.kind = call[c].kind /\ s.workspace = call[c].workspace
        /\ s.project = call[c].project /\ s.base = call[c].base
        /\ s.email = call[c].email
    BY <1>0, <2>1 DEF CallState
  <2> HIDE DEF s
  <2>4. \A m \in 0..(n - 1) : Taken(s, m)
    BY <1>0, <1>1, <1>f, <2>1, <2>2 DEF Fits, Naming, Taken
  <2>5. Fits(c, s) BY <1>0, <1>f, <2>2, <2>4 DEF Fits, Naming, Changing
  <2> QED BY <2>2, <2>3, <2>5, CallMoves DEF CheckSlug
<1>2. CASE ~Taken(call[c], call[c].suffix)
  <2> DEFINE s == [call[c] EXCEPT !.pc = "insert"]
  <2>2. /\ s \in CallState /\ s.pc = "insert"
        /\ s.kind = call[c].kind /\ s.workspace = call[c].workspace
        /\ s.project = call[c].project /\ s.base = call[c].base
        /\ s.suffix = call[c].suffix /\ s.email = call[c].email
    BY <1>0 DEF CallState
  <2>3. call' = [call EXCEPT ![c] = s] BY <1>2 DEF CheckSlug, CallTo
  <2> HIDE DEF s
  <2>4. Fits(c, s) BY <1>0, <1>f, <2>2 DEF Fits, Naming, Changing, Taken
  <2> QED BY <2>2, <2>3, <2>4, CallMoves DEF CheckSlug
<1> QED BY <1>1, <1>2

LEMMA AssertOwnershipIInv ==
  ASSUME IInv, NEW c \in Calls, AssertOwnership(c)
  PROVE  IInv'
<1>0. call[c] \in CallState /\ call[c].pc = "own"
  BY DEF IInv, AccountsTypeOK, AssertOwnership
<1>1. CASE EndCall(c, "refused") BY <1>0, <1>1, EndIInv DEF AssertOwnership
<1>2. ASSUME NEW pc \in {"read", "write"}, Owns(c), CallTo(c, pc) PROVE IInv'
  <2> DEFINE s == [call[c] EXCEPT !.pc = pc]
  <2>2. /\ s \in CallState /\ s.pc = pc
        /\ s.kind = call[c].kind /\ s.workspace = call[c].workspace
        /\ s.project = call[c].project
    BY <1>0 DEF CallState
  <2>3. call' = [call EXCEPT ![c] = s] BY <1>2 DEF CallTo
  <2> HIDE DEF s
  <2>4. Fits(c, s)
    BY <1>0, <1>2, <2>2 DEF IInv, CallsFit, Fits, Naming, Changing, Owns, IsProject
  <2> QED BY <2>2, <2>3, <2>4, CallMoves DEF AssertOwnership
<1> QED BY <1>1, <1>2 DEF AssertOwnership

LEMMA ReadConfigIInv ==
  ASSUME IInv, NEW c \in Calls, ReadConfig(c)
  PROVE  IInv'
<1>0. call[c] \in CallState /\ call[c].pc = "read" /\ Fits(c, call[c])
  BY DEF IInv, AccountsTypeOK, CallsFit, ReadConfig
<1>1. call[c].project \in Projects /\ project[call[c].project] # None
  BY <1>0 DEF Fits, Changing, IsProject
<1> DEFINE existing == project[call[c].project].config
<1>2. existing \in Config BY <1>1 DEF IInv, AccountsTypeOK, ProjectRow
<1> DEFINE s == [call[c] EXCEPT !.pc = "write", !.existing = existing]
<1>3. call' = [call EXCEPT ![c] = s] BY DEF ReadConfig
<1> HIDE DEF existing
<1>4. /\ s \in CallState /\ s.pc = "write"
      /\ s.kind = call[c].kind /\ s.workspace = call[c].workspace
      /\ s.project = call[c].project
  BY <1>0, <1>2 DEF CallState
<1> HIDE DEF s
<1>5. Fits(c, s) BY <1>0, <1>4 DEF Fits, Naming, Changing
<1> QED BY <1>3, <1>4, <1>5, CallMoves DEF ReadConfig

-------------------------------------------------------------------------------
\* The two steps that write a table: c ends, and every name stays.
LEMMA CallWrites ==
  ASSUME IInv, NEW c \in Calls, EndCall(c, "done"), NamesStay,
         call[c].pc # "idle",
         \A d \in Calls \ {c} : call[d].pc # "done" =>
            workspace'[d] = workspace[d] /\ project'[d] = project[d]
  PROVE  CallsFit' /\ call' \in [Calls -> CallState]
<1>0. call \in [Calls -> CallState] BY DEF IInv, AccountsTypeOK
<1> PICK s \in CallState : s = Ended(c, "done") BY EndedCall
<1>1. s.pc = "done" BY EndedCall
<1>2. call' = [call EXCEPT ![c] = s] BY DEF EndCall
<1>3. call'[c] = s /\ \A d \in Calls \ {c} : call'[d] = call[d] BY <1>0, <1>2
<1>4. Fits(c, s)' BY <1>1 DEF Fits, Naming, Changing
<1>5. ASSUME NEW d \in Calls \ {c}, NEW t, t = call[d], Fits(d, t) PROVE Fits(d, t)'
  <2>1. \A n \in 0..(t.suffix - 1) : Taken(t, n) => Taken(t, n)' BY TakenStays
  <2>2. t.pc # "done" => workspace'[d] = None /\ project'[d] = None
    BY <1>5 DEF Fits
  <2>3. t.pc \in {"read", "write"} =>
          IsProject(t.project)' /\ project'[t.project].workspace = t.workspace
    BY <1>5 DEF Fits, NamesStay, IsProject, Changing
  <2> QED BY <1>5, <2>1, <2>2, <2>3 DEF Fits, IsProject
<1>6. \A d \in Calls \ {c} : Fits(d, call[d]) BY DEF IInv, CallsFit
<1> QED BY <1>0, <1>2, <1>3, <1>4, <1>5, <1>6 DEF CallsFit

\* A key that was issued stays issued when a call ends.
LEMMA IssuedStays ==
  ASSUME IInv, NEW c \in Calls, EndCall(c, "done"), NamesStay,
         NEW k \in Keys, NEW p \in Projects, IsProject(p), IssuedFor(k, p)
  PROVE  IssuedFor(k, p)'
<1>0. call \in [Calls -> CallState] BY DEF IInv, AccountsTypeOK
<1>1. \A d \in Calls : /\ call'[d].kind = call[d].kind
                       /\ call'[d].project = call[d].project
                       /\ call'[d].workspace = call[d].workspace
  BY <1>0, EndedCall DEF EndCall
<1>2. project'[p] # None /\ project'[p].workspace = project[p].workspace
  BY DEF NamesStay
<1> QED BY <1>1, <1>2 DEF IssuedFor, IsProject

\* A new workspace.
LEMMA RegisterIInv ==
  ASSUME IInv, NEW c \in Calls, Insert(c), call[c].kind = "register"
  PROVE  IInv'
<1>0. /\ call[c] \in CallState /\ call[c].pc = "insert" /\ Fits(c, call[c])
      /\ workspace \in [Workspaces -> WorkspaceRow \cup {None}]
  BY DEF IInv, AccountsTypeOK, CallsFit, Insert
<1> DEFINE row == [base |-> call[c].base, suffix |-> call[c].suffix,
                   email |-> call[c].email]
<1>1. /\ row \in WorkspaceRow /\ workspace[c] = None /\ project[c] = None
      /\ \A n \in 0..(row.suffix - 1) : Taken(call[c], n)
  BY <1>0 DEF Fits, Naming, CallState, WorkspaceRow
<1>2. workspace' = [workspace EXCEPT ![c] = row] /\ UNCHANGED project
  BY DEF Insert, Inserted
<1>3. /\ \A w \in Workspaces : IsWorkspace(w) =>
            /\ SlugOf(workspace[w]) # SlugOf(row)
            /\ workspace[w].email # row.email
      /\ \A n \in 0..(row.suffix - 1) : \E v \in Workspaces :
            IsWorkspace(v) /\ SlugOf(workspace[v]) = Slug(row.base, n)
  BY <1>1 DEF Insert, Insertable, Taken, EmailTaken, SlugOf, IsWorkspace
<1>4. c \in Workspaces BY DEF Workspaces
<1> HIDE DEF row
<1>5. /\ workspace' \in [Workspaces -> WorkspaceRow \cup {None}]
      /\ workspace'[c] = row
      /\ \A w \in Workspaces \ {c} : workspace'[w] = workspace[w]
  BY <1>0, <1>1, <1>2, <1>4
<1>6. NamesStay BY <1>1, <1>2, <1>5 DEF NamesStay, IsWorkspace, IsProject
<1>7. CallsFit' /\ call' \in [Calls -> CallState]
  BY <1>0, <1>2, <1>5, <1>6, CallWrites DEF Insert, Workspaces
<1>8. AccountsTypeOK' BY <1>2, <1>5, <1>7 DEF IInv, AccountsTypeOK
<1>9. KeysIssued'
  <2>1. ASSUME NEW p \in Projects, IsProject(p) PROVE IssuedFor(project[p].apiKey, p)'
    <3>1. project[p].apiKey \in Keys /\ IssuedFor(project[p].apiKey, p)
      BY <2>1 DEF IInv, AccountsTypeOK, ProjectRow, KeysIssued, IsProject
    <3>2. PICK k \in Keys : k = project[p].apiKey BY <3>1
    <3>3. IssuedFor(k, p)' BY <1>6, <2>1, <3>1, <3>2, IssuedStays DEF Insert
    <3> QED BY <1>2, <3>2, <3>3
  <2> QED BY <1>2, <2>1 DEF KeysIssued, IsProject
<1>10. NamesUnique'
  BY <1>2, <1>3, <1>5 DEF IInv, NamesUnique, IsWorkspace, IsProject
<1>11. SuffixesNeeded'
  <2>1. ASSUME NEW w \in Workspaces, IsWorkspace(w)', NEW n \in 0..(workspace'[w].suffix - 1)
        PROVE  \E v \in Workspaces :
                  IsWorkspace(v) /\ SlugOf(workspace[v]) = Slug(workspace'[w].base, n)
    <3>1. CASE w = c BY <1>3, <1>5, <2>1, <3>1
    <3>2. CASE w # c BY <1>5, <2>1, <3>2 DEF IInv, SuffixesNeeded, IsWorkspace
    <3> QED BY <3>1, <3>2
  <2>2. ASSUME NEW v \in Workspaces, IsWorkspace(v)
        PROVE  IsWorkspace(v)' /\ workspace'[v] = workspace[v]
    BY <1>1, <1>5, <2>2 DEF IsWorkspace
  <2>3. \A w \in Workspaces : IsWorkspace(w)' =>
           \A n \in 0..(workspace'[w].suffix - 1) :
              \E v \in Workspaces :
                 IsWorkspace(v)' /\ SlugOf(workspace'[v]) = Slug(workspace'[w].base, n)
    BY <2>1, <2>2
  <2> QED BY <1>2, <2>3 DEF IInv, SuffixesNeeded, IsProject
<1> QED BY <1>7, <1>8, <1>9, <1>10, <1>11 DEF IInv

\* A new project.
LEMMA CreateIInv ==
  ASSUME IInv, NEW c \in Calls, Insert(c), call[c].kind # "register"
  PROVE  IInv'
<1>0. /\ call[c] \in CallState /\ call[c].pc = "insert" /\ Fits(c, call[c])
      /\ project \in [Projects -> ProjectRow \cup {None}]
  BY DEF IInv, AccountsTypeOK, CallsFit, Insert
<1> DEFINE row == [workspace |-> call[c].workspace, base |-> call[c].base,
                   suffix |-> call[c].suffix, apiKey |-> c,
                   domain |-> call[c].domain, config |-> NoConfig]
<1>1. /\ row \in ProjectRow /\ workspace[c] = None /\ project[c] = None
      /\ \A n \in 0..(row.suffix - 1) : Taken(call[c], n)
  <2>1. NoConfig \in Config BY DEF NoConfig, Config, HostLists
  <2> QED BY <1>0, <2>1 DEF Fits, Naming, CallState, ProjectRow, Keys
<1>2. project' = [project EXCEPT ![c] = row] /\ UNCHANGED workspace
  BY DEF Insert, Inserted
<1>3. /\ \A p \in Projects : IsProject(p) /\ project[p].workspace = row.workspace =>
            SlugOf(project[p]) # SlugOf(row)
      /\ \A n \in 0..(row.suffix - 1) : \E q \in Projects :
            /\ IsProject(q) /\ project[q].workspace = row.workspace
            /\ SlugOf(project[q]) = Slug(row.base, n)
      /\ row.apiKey = c
  BY <1>1 DEF Insert, Insertable, Taken, SlugOf, IsProject
<1>4. c \in Projects BY DEF Projects
<1> HIDE DEF row
<1>5. /\ project' \in [Projects -> ProjectRow \cup {None}]
      /\ project'[c] = row
      /\ \A p \in Projects \ {c} : project'[p] = project[p]
  BY <1>0, <1>1, <1>2, <1>4
<1>o. ASSUME NEW p \in Projects, IsProject(p) PROVE p # c /\ project'[p] = project[p]
  BY <1>1, <1>5, <1>o DEF IsProject
<1>6. NamesStay BY <1>2, <1>o DEF NamesStay, IsWorkspace, IsProject
<1>7. CallsFit' /\ call' \in [Calls -> CallState]
  BY <1>0, <1>2, <1>5, <1>6, CallWrites DEF Insert, Projects
<1>8. AccountsTypeOK' BY <1>2, <1>5, <1>7 DEF IInv, AccountsTypeOK
<1>9. KeysIssued'
  <2>1. ASSUME NEW p \in Projects, IsProject(p) PROVE IssuedFor(project[p].apiKey, p)'
    <3>1. project[p].apiKey \in Keys /\ IssuedFor(project[p].apiKey, p)
      BY <2>1 DEF IInv, AccountsTypeOK, ProjectRow, KeysIssued, IsProject
    <3>2. PICK k \in Keys : k = project[p].apiKey BY <3>1
    <3>3. IssuedFor(k, p)' BY <1>6, <2>1, <3>1, <3>2, IssuedStays DEF Insert
    <3> QED BY <1>o, <2>1, <3>2, <3>3
  <2>2. IssuedFor(project[c].apiKey, c)' BY <1>3, <1>5 DEF IssuedFor
  <2>3. \A p \in Projects : IsProject(p)' => IsProject(p) \/ p = c
    BY <1>5 DEF IsProject
  <2> QED BY <2>1, <2>2, <2>3 DEF KeysIssued
<1>10. NamesUnique'
  BY <1>2, <1>3, <1>5 DEF IInv, NamesUnique, IsWorkspace, IsProject
<1>11. SuffixesNeeded'
  <2>1. ASSUME NEW p \in Projects, IsProject(p)', NEW n \in 0..(project'[p].suffix - 1)
        PROVE  \E q \in Projects :
                  /\ IsProject(q) /\ project[q].workspace = project'[p].workspace
                  /\ SlugOf(project[q]) = Slug(project'[p].base, n)
    <3>1. CASE p = c BY <1>3, <1>5, <2>1, <3>1
    <3>2. CASE p # c BY <1>5, <2>1, <3>2 DEF IInv, SuffixesNeeded, IsProject
    <3> QED BY <3>1, <3>2
  <2>2. ASSUME NEW q \in Projects, IsProject(q)
        PROVE  IsProject(q)' /\ project'[q] = project[q]
    BY <1>o, <2>2 DEF IsProject
  <2>3. \A p \in Projects : IsProject(p)' =>
           \A n \in 0..(project'[p].suffix - 1) : \E q \in Projects :
              /\ IsProject(q)' /\ project'[q].workspace = project'[p].workspace
              /\ SlugOf(project'[q]) = Slug(project'[p].base, n)
    BY <2>1, <2>2
  <2> QED BY <1>2, <2>3 DEF IInv, SuffixesNeeded, IsWorkspace
<1> QED BY <1>7, <1>8, <1>9, <1>10, <1>11 DEF IInv

\* What an update makes of a row keeps its name and its workspace.
LEMMA ChangedRow ==
  ASSUME IInv, NEW c \in Calls, call[c].pc = "write", NEW row \in ProjectRow
  PROVE  /\ Changed(c, row) \in ProjectRow
         /\ Changed(c, row).workspace = row.workspace
         /\ Changed(c, row).base = row.base
         /\ Changed(c, row).suffix = row.suffix
         /\ \/ Changed(c, row).apiKey = row.apiKey
            \/ Changed(c, row).apiKey = c /\ call[c].kind = "rotate"
<1>0. call[c] \in CallState BY DEF IInv, AccountsTypeOK
<1>1. CASE call[c].kind = "rotate" BY <1>1 DEF Changed, ProjectRow, Keys
<1>2. CASE call[c].kind = "configure"
  <2> DEFINE config == Merged(call[c].existing, call[c].dto)
  <2>1. call[c].existing \in Config /\ call[c].dto \in ConfigDto
    BY <1>0 DEF CallState
  <2>2. config \in Config BY <2>1 DEF Merged, Config, ConfigDto
  <2>3. Changed(c, row) = [row EXCEPT !.config = config] BY <1>2 DEF Changed
  <2> HIDE DEF config
  <2> QED BY <2>2, <2>3 DEF ProjectRow
<1>3. CASE call[c].kind \notin {"rotate", "configure"}
  <2>1. call[c].domain \in Domains \cup {None} BY <1>0 DEF CallState
  <2>2. Changed(c, row) = row \/ Changed(c, row) = [row EXCEPT !.domain = call[c].domain]
    BY <1>3 DEF Changed
  <2> QED BY <2>1, <2>2 DEF ProjectRow
<1> QED BY <1>1, <1>2, <1>3

LEMMA WriteProjectIInv ==
  ASSUME IInv, NEW c \in Calls, WriteProject(c)
  PROVE  IInv'
<1>0. /\ call[c].pc = "write" /\ Fits(c, call[c]) /\ call[c] \in CallState
      /\ project \in [Projects -> ProjectRow \cup {None}]
  BY DEF IInv, AccountsTypeOK, CallsFit, WriteProject
<1>1. PICK p \in Projects : /\ p = call[c].project /\ IsProject(p)
                            /\ project[p].workspace = call[c].workspace
  BY <1>0 DEF Fits, Changing
<1>2. PICK row \in ProjectRow : row = project[p] BY <1>0, <1>1 DEF IsProject
<1>3. PICK new \in ProjectRow :
        /\ new = Changed(c, row)
        /\ new.workspace = row.workspace
        /\ SlugOf(new) = SlugOf(row) /\ new.base = row.base /\ new.suffix = row.suffix
        /\ new.apiKey = row.apiKey \/ (new.apiKey = c /\ call[c].kind = "rotate")
  BY <1>0, <1>2, ChangedRow DEF SlugOf
<1>4. project' = [project EXCEPT ![p] = new] /\ UNCHANGED workspace
  BY <1>0, <1>1, <1>2, <1>3 DEF WriteProject
<1>5. /\ project' \in [Projects -> ProjectRow \cup {None}]
      /\ project'[p] = new
      /\ \A q \in Projects \ {p} : project'[q] = project[q]
      /\ new # None
  BY <1>0, <1>3, <1>4, RowsAssumption
<1>6. NamesStay BY <1>1, <1>2, <1>3, <1>4, <1>5 DEF NamesStay, IsWorkspace, IsProject
<1>7. CallsFit' /\ call' \in [Calls -> CallState]
  <2>1. \A d \in Calls \ {c} : call[d].pc # "done" => d # p
    BY <1>1 DEF IInv, CallsFit, Fits, IsProject
  <2> QED BY <1>0, <1>4, <1>5, <1>6, <2>1, CallWrites DEF WriteProject, Projects
<1>8. AccountsTypeOK' BY <1>4, <1>5, <1>7 DEF IInv, AccountsTypeOK
<1>9. KeysIssued'
  <2>1. ASSUME NEW q \in Projects, IsProject(q)
        PROVE  IssuedFor(project[q].apiKey, q) /\ project[q].apiKey \in Keys
    BY <2>1 DEF IInv, AccountsTypeOK, ProjectRow, KeysIssued, IsProject
  <2>2. ASSUME NEW q \in Projects, IsProject(q), NEW k \in Keys, k = project[q].apiKey
        PROVE  IssuedFor(k, q)'
    BY <1>6, <2>1, <2>2, IssuedStays DEF WriteProject
  <2>3. ASSUME call[c].kind = "rotate" PROVE IssuedFor(c, p)'
    <3>1. Ended(c, "done").kind = "rotate" /\ Ended(c, "done").project = p
          /\ Ended(c, "done").workspace = call[c].workspace
      BY <1>1, <2>3, EndedCall
    <3>2. call'[c] = Ended(c, "done")
      BY DEF WriteProject, EndCall, IInv, AccountsTypeOK
    <3> QED BY <1>1, <1>2, <1>3, <1>5, <3>1, <3>2 DEF IssuedFor, IsProject
  <2>4. \A q \in Projects : IsProject(q)' => IsProject(q) BY <1>1, <1>5 DEF IsProject
  <2>5. ASSUME NEW q \in Projects, IsProject(q), q # p PROVE IssuedFor(project[q].apiKey, q)'
    BY <1>5, <2>1, <2>2, <2>5
  <2>6. IssuedFor(project[p].apiKey, p)'
    BY <1>1, <1>2, <1>3, <1>5, <2>1, <2>2, <2>3
  <2> QED BY <2>4, <2>5, <2>6 DEF KeysIssued
<1>10. NamesUnique'
  BY <1>1, <1>2, <1>3, <1>4, <1>5 DEF IInv, NamesUnique, IsWorkspace, IsProject
<1>11. SuffixesNeeded'
  <2>1. \A q \in Projects : /\ IsProject(q)' <=> IsProject(q)
                            /\ IsProject(q) =>
                                 /\ project'[q].workspace = project[q].workspace
                                 /\ project'[q].base = project[q].base
                                 /\ project'[q].suffix = project[q].suffix
                                 /\ SlugOf(project'[q]) = SlugOf(project[q])
    BY <1>1, <1>2, <1>3, <1>5 DEF IsProject
  <2> QED BY <1>4, <2>1 DEF IInv, SuffixesNeeded, IsWorkspace, IsProject
<1> QED BY <1>7, <1>8, <1>9, <1>10, <1>11 DEF IInv

-------------------------------------------------------------------------------
\* No step takes a name away, nor a key from whoever it was issued for.
LEMMA CallStepNames ==
  ASSUME IInv, NEW c \in Calls, CallStep(c)
  PROVE  NamesStay
<1>1. CASE Insert(c)
  <2>1. workspace[c] = None /\ project[c] = None
    BY <1>1 DEF IInv, CallsFit, Fits, Insert
  <2>2. \A w \in Workspaces : IsWorkspace(w) => workspace'[w] = workspace[w]
    BY <1>1, <2>1 DEF Insert, Inserted, IsWorkspace, IInv, AccountsTypeOK
  <2>3. \A p \in Projects : IsProject(p) => project'[p] = project[p]
    BY <1>1, <2>1 DEF Insert, Inserted, IsProject, IInv, AccountsTypeOK
  <2> QED BY <2>2, <2>3 DEF NamesStay, IsProject
<1>2. CASE WriteProject(c)
  <2>1. /\ call[c].pc = "write" /\ Fits(c, call[c])
        /\ project \in [Projects -> ProjectRow \cup {None}]
    BY <1>2 DEF IInv, AccountsTypeOK, CallsFit, WriteProject
  <2>2. PICK p \in Projects : p = call[c].project /\ IsProject(p)
    BY <2>1 DEF Fits, Changing
  <2>3. PICK row \in ProjectRow : row = project[p] BY <2>1, <2>2 DEF IsProject
  <2>4. PICK new \in ProjectRow : /\ new = Changed(c, row)
                                 /\ new.workspace = row.workspace
                                 /\ SlugOf(new) = SlugOf(row)
    BY <2>1, <2>3, ChangedRow DEF SlugOf
  <2>5. project' = [project EXCEPT ![p] = new] /\ UNCHANGED workspace
    BY <1>2, <2>2, <2>3, <2>4 DEF WriteProject
  <2>6. /\ project'[p] = new /\ new # None
        /\ \A q \in Projects \ {p} : project'[q] = project[q]
    BY <2>1, <2>4, <2>5, RowsAssumption
  <2> QED BY <2>2, <2>3, <2>4, <2>5, <2>6 DEF NamesStay, IsWorkspace, IsProject
<1>3. CASE UNCHANGED <<workspace, project>>
  BY <1>3 DEF NamesStay, IsWorkspace, IsProject
<1> QED
  BY <1>1, <1>2, <1>3 DEF CallStep, StartCall, CheckEmail, CheckSlug, LoseInsert,
     AssertOwnership, ReadConfig, FailCall

LEMMA CallStepIssued ==
  ASSUME IInv, NEW c \in Calls, CallStep(c),
         NEW k \in Keys, NEW p \in Projects, IsProject(p), IssuedFor(k, p)
  PROVE  IsProject(p)' /\ IssuedFor(k, p)'
<1>0. call \in [Calls -> CallState] BY DEF IInv, AccountsTypeOK
<1>1. ASSUME NEW d \in Calls, call[d].pc # "idle"
      PROVE  /\ call'[d].kind = call[d].kind
             /\ call'[d].project = call[d].project
             /\ call'[d].workspace = call[d].workspace
  <2>1. CASE d # c
    BY <1>0, <2>1 DEF CallStep, StartCall, Register, CreateProject, ChangeProject,
       CheckEmail, CheckSlug, Insert, LoseInsert, AssertOwnership, ReadConfig,
       WriteProject, FailCall, EndCall, CallTo
  <2>2. CASE d = c /\ \E pc \in {"done", "refused", "failed"} : EndCall(c, pc)
    BY <1>0, <2>2, EndedCall DEF EndCall
  <2>3. CASE d = c /\ (\E pc \in {"slug", "insert", "read", "write"} : CallTo(c, pc))
    BY <1>0, <2>3 DEF CallTo, CallState
  <2>4. CASE d = c /\ call' = [call EXCEPT ![c].suffix = @ + 1]
    BY <1>0, <2>4 DEF CallState
  <2>5. CASE d = c /\ ReadConfig(c)
    BY <1>0, <2>5 DEF ReadConfig, CallState
  <2> QED
    BY <1>1, <2>1, <2>2, <2>3, <2>4, <2>5 DEF CallStep, StartCall, CheckEmail,
       CheckSlug, Insert, LoseInsert, AssertOwnership, WriteProject, FailCall
<1>2. /\ project'[p] # None /\ project'[p].workspace = project[p].workspace
  BY CallStepNames DEF NamesStay
<1>3. CASE k \in Calls /\ k # p
  <2>1. call[k].kind = "rotate" /\ call[k].project = p BY <1>3 DEF IssuedFor
  <2>2. call[k].pc # "idle"
    BY <1>3, <2>1, AccountsAssumption DEF IInv, CallsFit, Fits, IdleCall, Projects
  <2> QED BY <1>1, <1>2, <1>3, <2>1, <2>2 DEF IssuedFor, IsProject
<1>4. CASE k \notin Calls \/ k = p BY <1>2, <1>4 DEF IssuedFor, IsProject
<1> QED BY <1>3, <1>4

LEMMA NextIInv == IInv /\ [AccountsNext]_accountVars => IInv'
<1> SUFFICES ASSUME IInv, [AccountsNext]_accountVars PROVE IInv'
  OBVIOUS
<1>1. ASSUME NEW c \in Calls, CallStep(c) PROVE IInv'
  <2>1. CASE StartCall(c) BY <2>1, StartIInv
  <2>2. CASE CheckEmail(c) BY <2>2, CheckEmailIInv
  <2>3. CASE CheckSlug(c) BY <2>3, CheckSlugIInv
  <2>4. CASE Insert(c) BY <2>4, RegisterIInv, CreateIInv
  <2>5. CASE LoseInsert(c) \/ FailCall(c) BY <2>5, EndIInv DEF LoseInsert, FailCall
  <2>6. CASE AssertOwnership(c) BY <2>6, AssertOwnershipIInv
  <2>7. CASE ReadConfig(c) BY <2>7, ReadConfigIInv
  <2>8. CASE WriteProject(c) BY <2>8, WriteProjectIInv
  <2> QED
    BY <1>1, <2>1, <2>2, <2>3, <2>4, <2>5, <2>6, <2>7, <2>8 DEF CallStep
<1>2. CASE UNCHANGED accountVars
  <2>1. UNCHANGED workspace /\ UNCHANGED project /\ UNCHANGED call
    BY <1>2 DEF accountVars
  <2>2. AccountsTypeOK' BY <2>1 DEF IInv, AccountsTypeOK
  <2>3. CallsFit' BY <2>1 DEF IInv, CallsFit, Fits, Taken, IsProject
  <2>4. KeysIssued' BY <2>1 DEF IInv, KeysIssued, IssuedFor, IsProject
  <2>5. NamesUnique' /\ SuffixesNeeded'
    BY <2>1 DEF IInv, NamesUnique, SuffixesNeeded, IsWorkspace, IsProject
  <2> QED BY <2>2, <2>3, <2>4, <2>5 DEF IInv
<1> QED BY <1>1, <1>2 DEF AccountsNext

LEMMA Inductive == AccountsSpec => []IInv
  BY InitIInv, NextIInv, PTL DEF AccountsSpec

\* Every state of the accounts is well typed.
THEOREM AccountsTypeCorrect == AccountsSpec => []AccountsTypeOK
  BY Inductive, IInvIsEnough, PTL

\* Racing registrations and creations end with distinct names, and with no
\* larger a suffix than they need.
THEOREM NamesAreAssigned == AccountsSpec => []NamesAssigned
  BY Inductive, IInvIsEnough, PTL

\* A project's key is one its own workspace generated for it, and an update
\* that passed the ownership check still writes to its own workspace's project.
THEOREM ProjectsStayApart == AccountsSpec => []ProjectsApart
  BY Inductive, IInvIsEnough, PTL

-------------------------------------------------------------------------------
(* Admission                                                                *)

\* What a request may have in hand, as a record q of RequestState: past the
\* key it has a project whose key it sent; only its INCR counts it, and
\* its guard's Redis commands have not failed before.
RequestFits(q) ==
    /\ q.pc \in {"limit", "incr", "expire", "throttle", "origin"} => q.project # None
    /\ q.pc \in {"idle", "key"} => q.project = None
    /\ q.pc = "key" => q.apiKey \in Keys
    /\ q.project # None =>
          /\ q.project \in Projects
          /\ IsProject(q.project)
          /\ q.apiKey \in Keys
          /\ IssuedFor(q.apiKey, q.project)
    /\ q.incrs > 0 => q.project # None
    /\ q.pc \in {"idle", "key", "limit"} => q.incrs = 0
    /\ q.pc \in {"idle", "key", "limit", "incr"} => ~q.cut

RequestsFit == \A r \in Requests : RequestFits(request[r])

\* The inductive invariant.
AInv == IInv /\ TypeOK /\ RequestsFit /\ CountersExpire

LEMMA AInvIsEnough == AInv => TypeOK /\ TenantsApart /\ CountersExpire
  BY IInvIsEnough DEF AInv, RequestsFit, RequestFits, TenantsApart

LEMMA InitAInv == Init => AInv
<1> SUFFICES ASSUME Init PROVE AInv
  OBVIOUS
<1>1. IInv BY InitIInv DEF Init
<1>2. TypeOK
  <2>1. 1 \in Windows /\ DefaultLimit \in Limits \cup {DefaultLimit} /\ 0 \in 0..MaxSends
    BY AdmissionAssumption DEF Windows
  <2>2. IdleRequest \in RequestState BY <2>1 DEF IdleRequest, RequestState
  <2> QED BY <1>1, <2>1, <2>2 DEF Init, TypeOK, IInv, Absent
<1>3. RequestsFit BY DEF Init, RequestsFit, RequestFits, IdleRequest
<1>4. CountersExpire BY DEF Init, CountersExpire, Absent
<1> QED BY <1>1, <1>2, <1>3, <1>4 DEF AInv

\* A step of r that touches no counter and no row.
LEMMA RequestMoves ==
  ASSUME AInv, NEW r \in Requests, NEW q \in RequestState,
         request' = [request EXCEPT ![r] = q], UNCHANGED <<accountVars, counter, now>>,
         RequestFits(q),
         request[r].incrs > 0 =>
            /\ q.incrs = request[r].incrs
            /\ q.project = request[r].project
            /\ q.window = request[r].window
            /\ MayOwe(request[r]) => MayOwe(q)
  PROVE  AInv'
<1>0. request \in [Requests -> RequestState] BY DEF AInv, TypeOK
<1>1. request'[r] = q /\ \A s \in Requests \ {r} : request'[s] = request[s] BY <1>0
<1>2. UNCHANGED <<workspace, project, call, counter, now>> BY DEF accountVars
<1>3. IInv'
  <2>1. [AccountsNext]_accountVars BY DEF accountVars
  <2> QED BY <2>1, NextIInv DEF AInv
<1>4. TypeOK' BY <1>0, <1>2, <1>3 DEF AInv, TypeOK, IInv
<1>5. RequestsFit'
  <2>1. ASSUME NEW t, RequestFits(t) PROVE RequestFits(t)'
    BY <1>2, <2>1 DEF RequestFits, IssuedFor, IsProject
  <2> QED BY <1>1, <2>1 DEF AInv, RequestsFit
<1>6. CountersExpire'
  <2>1. ASSUME NEW k \in CounterKeys, counter[k].count > 0, ~counter[k].ttl
        PROVE  \E s \in CountedIn(k)' : MayOwe(request'[s])
    <3>1. PICK s \in CountedIn(k) : MayOwe(request[s])
      BY <2>1 DEF AInv, CountersExpire
    <3>2. s \in CountedIn(k)' BY <1>1, <3>1 DEF CountedIn, CounterOf
    <3> QED BY <1>1, <3>1, <3>2 DEF CountedIn
  <2> QED BY <1>2, <2>1 DEF CountersExpire
<1> QED BY <1>3, <1>4, <1>5, <1>6 DEF AInv

\* A step of the dashboard.
LEMMA AccountsAInv ==
  ASSUME AInv, AccountsNext, UNCHANGED admissionVars
  PROVE  AInv'
<1>1. IInv' BY NextIInv DEF AInv
<1>2. UNCHANGED <<request, counter, now>> BY DEF admissionVars
<1>3. TypeOK' BY <1>1, <1>2 DEF AInv, TypeOK, IInv
<1>4. RequestsFit'
  <2>1. PICK c \in Calls : CallStep(c) BY DEF AccountsNext
  <2>2. ASSUME NEW q, RequestFits(q) PROVE RequestFits(q)'
    <3>1. CASE q.project = None BY <2>2, <3>1 DEF RequestFits
    <3>2. CASE q.project # None
      BY <2>1, <2>2, <3>2, CallStepIssued DEF AInv, RequestFits
    <3> QED BY <3>1, <3>2
  <2> QED BY <1>2, <2>2 DEF AInv, RequestsFit
<1>5. CountersExpire' BY <1>2 DEF AInv, CountersExpire, CountedIn, CounterOf
<1> QED BY <1>1, <1>3, <1>4, <1>5 DEF AInv

\* A request moves on to pc, or ends there: all it was counted by stays.
LEMMA PcMoves ==
  ASSUME AInv, NEW r \in Requests,
         NEW pc \in {"limited", "throttle", "origin", "admitted", "unauthorized",
                     "throttled", "forbidden", "failed"},
         RequestTo(r, pc) \/ EndRequest(r, pc),
         UNCHANGED <<accountVars, counter, now>>,
         request[r].pc \notin {"incr", "expire"},
         request[r].pc = "throttle" \/ request[r].pc = "origin"
            \/ pc \in {"unauthorized", "failed"}
  PROVE  AInv'
<1>0. request[r] \in RequestState /\ RequestFits(request[r])
  BY DEF AInv, TypeOK, RequestsFit
<1>1. CASE RequestTo(r, pc)
  <2> DEFINE q == [request[r] EXCEPT !.pc = pc]
  <2>1. /\ q \in RequestState /\ q.pc = pc /\ q.incrs = request[r].incrs
        /\ q.project = request[r].project /\ q.window = request[r].window
        /\ q.cut = request[r].cut /\ q.apiKey = request[r].apiKey
        /\ q.count = request[r].count
    BY <1>0 DEF RequestState
  <2>2. request' = [request EXCEPT ![r] = q] BY <1>1 DEF RequestTo
  <2> HIDE DEF q
  <2>3. RequestFits(q) BY <1>0, <2>1 DEF RequestFits
  <2> QED BY <2>1, <2>2, <2>3, RequestMoves DEF MayOwe
<1>2. CASE EndRequest(r, pc)
  <2> DEFINE q == [request[r] EXCEPT !.pc = pc, !.origin = None, !.domain = None]
  <2>1. /\ q \in RequestState /\ q.pc = pc /\ q.incrs = request[r].incrs
        /\ q.project = request[r].project /\ q.window = request[r].window
        /\ q.cut = request[r].cut /\ q.apiKey = request[r].apiKey
        /\ q.count = request[r].count
    BY <1>0 DEF RequestState
  <2>2. request' = [request EXCEPT ![r] = q] BY <1>2 DEF EndRequest
  <2> HIDE DEF q
  <2>3. RequestFits(q) BY <1>0, <2>1 DEF RequestFits
  <2> QED BY <2>1, <2>2, <2>3, RequestMoves DEF MayOwe
<1> QED BY <1>1, <1>2

LEMMA SendAInv ==
  ASSUME AInv, NEW r \in Requests, Send(r)
  PROVE  AInv'
<1>0. request[r] \in RequestState /\ RequestFits(request[r]) /\ request[r].pc = "idle"
  BY DEF AInv, TypeOK, RequestsFit, Send
<1>1. PICK key \in Keys, origin \in Hosts \cup {None} :
        request' = [request EXCEPT ![r] = [@ EXCEPT !.pc = "key",
                       !.apiKey = key, !.origin = origin]]
  BY DEF Send
<1> DEFINE q == [request[r] EXCEPT !.pc = "key", !.apiKey = key, !.origin = origin]
<1>2. /\ q \in RequestState /\ q.pc = "key" /\ q.incrs = request[r].incrs
      /\ q.project = request[r].project /\ q.cut = request[r].cut /\ q.apiKey = key
  BY <1>0 DEF RequestState
<1>3. request' = [request EXCEPT ![r] = q] BY <1>1
<1> HIDE DEF q
<1>4. RequestFits(q) BY <1>0, <1>2 DEF RequestFits
<1> QED BY <1>0, <1>2, <1>3, <1>4, RequestMoves DEF Send, RequestFits

LEMMA FindProjectAInv ==
  ASSUME AInv, NEW r \in Requests, FindProject(r)
  PROVE  AInv'
<1>0. request[r] \in RequestState /\ RequestFits(request[r]) /\ request[r].pc = "key"
  BY DEF AInv, TypeOK, RequestsFit, FindProject
<1>1. CASE EndRequest(r, "unauthorized") BY <1>0, <1>1, PcMoves DEF FindProject
<1>2. CASE ~EndRequest(r, "unauthorized")
  <2>1. PICK p \in Projects :
          /\ IsProject(p)
          /\ project[p].apiKey = request[r].apiKey
          /\ request' = [request EXCEPT ![r] = [@ EXCEPT !.pc = "limit",
                            !.project = p, !.domain = project[p].domain]]
    BY <1>2 DEF FindProject
  <2> DEFINE domain == project[p].domain
  <2>2. domain \in Domains \cup {None} /\ project[p].apiKey \in Keys
        /\ IssuedFor(request[r].apiKey, p)
    BY <2>1 DEF AInv, IInv, AccountsTypeOK, ProjectRow, IsProject, KeysIssued
  <2> DEFINE q == [request[r] EXCEPT !.pc = "limit", !.project = p, !.domain = domain]
  <2>3. request' = [request EXCEPT ![r] = q] BY <2>1
  <2> HIDE DEF domain
  <2>4. /\ q \in RequestState /\ q.pc = "limit" /\ q.incrs = request[r].incrs
        /\ q.project = p /\ q.cut = request[r].cut /\ q.apiKey = request[r].apiKey
    BY <1>0, <2>2 DEF RequestState
  <2> HIDE DEF q
  <2>5. p # None BY AccountsAssumption DEF Projects
  <2>6. RequestFits(q) BY <1>0, <2>1, <2>2, <2>4, <2>5 DEF RequestFits
  <2> QED BY <1>0, <2>3, <2>4, <2>6, RequestMoves DEF FindProject, RequestFits
<1> QED BY <1>1, <1>2

LEMMA ReadLimitAInv ==
  ASSUME AInv, NEW r \in Requests, ReadLimit(r)
  PROVE  AInv'
<1>0. request[r] \in RequestState /\ RequestFits(request[r]) /\ request[r].pc = "limit"
  BY DEF AInv, TypeOK, RequestsFit, ReadLimit
<1>1. PICK p \in Projects : p = request[r].project /\ IsProject(p)
  BY <1>0 DEF RequestFits
<1> DEFINE limit == LimitOf(project[p].config)
<1>2. limit \in Limits \cup {DefaultLimit}
  <2>1. project[p].config \in Config
    BY <1>1 DEF AInv, IInv, AccountsTypeOK, ProjectRow, IsProject
  <2> QED BY <2>1 DEF LimitOf, Config
<1>3. now \in Windows BY DEF AInv, TypeOK
<1> DEFINE q == [request[r] EXCEPT !.pc = "incr", !.limit = limit, !.window = now]
<1>4. request' = [request EXCEPT ![r] = q] BY <1>1 DEF ReadLimit
<1> HIDE DEF limit
<1>5. /\ q \in RequestState /\ q.pc = "incr" /\ q.incrs = request[r].incrs
      /\ q.project = request[r].project /\ q.cut = request[r].cut
      /\ q.apiKey = request[r].apiKey
  BY <1>0, <1>2, <1>3 DEF RequestState
<1>6. RequestFits(q)
  <2> HIDE DEF q
  <2> QED BY <1>0, <1>5 DEF RequestFits
<1>7. PICK s \in RequestState : s = q BY <1>5
<1>8. ~(request[r].incrs > 0) BY <1>0 DEF RequestFits
<1> HIDE DEF q
<1> QED BY <1>4, <1>5, <1>6, <1>8, RequestMoves DEF ReadLimit

-------------------------------------------------------------------------------
(* The Redis commands of the rate limiter                                   *)

\* INCR: whoever opens a counter is about to set its TTL, or was not answered.
LEMMA IncrAInv ==
  ASSUME AInv, NEW r \in Requests, Incr(r)
  PROVE  AInv'
<1>0. /\ request[r] \in RequestState /\ RequestFits(request[r])
      /\ request[r].pc = "incr" /\ request \in [Requests -> RequestState]
      /\ counter \in [CounterKeys -> [count : Nat, ttl : BOOLEAN]]
  BY DEF AInv, TypeOK, RequestsFit, Incr
<1>1. PICK key \in CounterKeys :
        key = CounterOf(r) /\ key = <<request[r].project, request[r].window>>
  BY <1>0 DEF RequestFits, CounterOf, CounterKeys, RequestState
<1>2. PICK n \in Nat : n = counter[key].count + 1 /\ n > 0 BY <1>0, <1>1
<1>3. PICK m \in 0..MaxSends :
        /\ m = request[r].incrs + 1 /\ m > 0
        /\ m > 1 \/ request[r].incrs = 0
  <2>1. request[r].incrs \in 0..MaxSends BY <1>0 DEF RequestState
  <2>2. request[r].incrs < MaxSends BY DEF Incr
  <2> QED BY <2>1, <2>2, AdmissionAssumption
<1>4. PICK q \in RequestState :
        /\ request' = [request EXCEPT ![r] = q]
        /\ q.incrs = m /\ q.project = request[r].project
        /\ q.window = request[r].window /\ q.apiKey = request[r].apiKey
        /\ q.pc \in {"incr", "expire", "limited", "throttle"}
        /\ q.cut = request[r].cut
        /\ MayOwe(q) \/ (n # 1 /\ request[r].incrs = 0)
  <2>1. CASE request' = [request EXCEPT ![r] = [@ EXCEPT !.incrs = request[r].incrs + 1,
                !.late = (now > request[r].window), !.count = n,
                !.pc = Judged(n, request[r].limit)]]
    <3>1. /\ Judged(n, request[r].limit) \in {"expire", "limited", "throttle"}
          /\ n = 1 => Judged(n, request[r].limit) = "expire"
      BY DEF Judged, FirstOfWindow
    <3>2. PICK pc \in {"expire", "limited", "throttle"} :
            pc = Judged(n, request[r].limit) /\ (n = 1 => pc = "expire")
      BY <3>1
    <3>3. PICK late \in BOOLEAN : late = (now > request[r].window)
      <4>1. (now > request[r].window) \in BOOLEAN BY DEF AInv, TypeOK, Windows
      <4> QED BY <4>1
    <3> DEFINE q == [request[r] EXCEPT !.incrs = m, !.late = late,
                                       !.count = n, !.pc = pc]
    <3>4. request' = [request EXCEPT ![r] = q] BY <1>3, <2>1, <3>2, <3>3
    <3>5. /\ q \in RequestState /\ q.incrs = m /\ q.project = request[r].project
          /\ q.window = request[r].window /\ q.apiKey = request[r].apiKey
          /\ q.pc = pc /\ q.cut = request[r].cut /\ q.count = n
      BY <1>0 DEF RequestState
    <3> HIDE DEF q
    <3>6. MayOwe(q) \/ (n # 1 /\ request[r].incrs = 0)
      <4>1. CASE n = 1 BY <3>2, <3>5, <4>1 DEF MayOwe
      <4>2. CASE n # 1 /\ m > 1 BY <3>5, <4>2 DEF MayOwe
      <4> QED BY <1>3, <4>1, <4>2
    <3> QED BY <3>2, <3>4, <3>5, <3>6
  <2>2. CASE request' = [request EXCEPT ![r].incrs = request[r].incrs + 1]
    <3> DEFINE q == [request[r] EXCEPT !.incrs = m]
    <3>1. request' = [request EXCEPT ![r] = q] BY <1>3, <2>2
    <3>2. /\ q \in RequestState /\ q.incrs = m /\ q.project = request[r].project
          /\ q.window = request[r].window /\ q.apiKey = request[r].apiKey
          /\ q.pc = "incr" /\ q.cut = request[r].cut
      BY <1>0 DEF RequestState
    <3> HIDE DEF q
    <3>3. MayOwe(q) BY <3>2 DEF MayOwe
    <3> HIDE DEF MayOwe
    <3> QED BY <3>1, <3>2, <3>3
  <2> QED BY <1>1, <1>2, <2>1, <2>2 DEF Incr
<1>5. request'[r] = q /\ \A s \in Requests \ {r} : request'[s] = request[s]
  BY <1>0, <1>4
<1>6. counter' = [counter EXCEPT ![key].count = n] BY <1>1, <1>2 DEF Incr
<1>7. /\ counter' \in [CounterKeys -> [count : Nat, ttl : BOOLEAN]]
      /\ counter'[key].ttl = counter[key].ttl
      /\ \A k \in CounterKeys : k # key => counter'[k] = counter[k]
  BY <1>0, <1>1, <1>2, <1>6
<1>8. UNCHANGED <<workspace, project, call, now>> BY DEF Incr, accountVars
<1>9. IInv'
  <2>1. [AccountsNext]_accountVars BY <1>8 DEF accountVars
  <2> QED BY <2>1, NextIInv DEF AInv
<1>10. TypeOK' BY <1>0, <1>4, <1>7, <1>8, <1>9 DEF AInv, TypeOK, IInv
<1>11. RequestsFit'
  <2>1. ASSUME NEW t, RequestFits(t) PROVE RequestFits(t)'
    BY <1>8, <2>1 DEF RequestFits, IssuedFor, IsProject
  <2>2. RequestFits(q) BY <1>0, <1>4 DEF RequestFits
  <2> QED BY <1>5, <2>1, <2>2 DEF AInv, RequestsFit
<1>12. CountersExpire'
  <2>1. r \in CountedIn(key)' BY <1>1, <1>3, <1>4, <1>5 DEF CountedIn, CounterOf
  <2>2. ASSUME NEW k \in CounterKeys, NEW s \in CountedIn(k), s # r
        PROVE  s \in CountedIn(k)' /\ request'[s] = request[s]
    BY <1>5, <2>2 DEF CountedIn, CounterOf
  <2>3. ASSUME NEW k \in CounterKeys, counter'[k].count > 0, ~counter'[k].ttl
        PROVE  \E s \in CountedIn(k)' : MayOwe(request'[s])
    <3>1. CASE k = key /\ MayOwe(q) BY <1>5, <2>1, <3>1
    <3>2. CASE k # key \/ ~MayOwe(q)
      <4>1. counter[k].count > 0 /\ ~counter[k].ttl
        BY <1>0, <1>2, <1>4, <1>7, <2>3, <3>2
      <4>2. PICK s \in CountedIn(k) : MayOwe(request[s])
        BY <4>1 DEF AInv, CountersExpire
      <4>3. s # r
        <5>1. request[s].incrs > 0 /\ CounterOf(s) = k BY DEF CountedIn
        <5>2. CASE k # key BY <1>1, <5>1, <5>2
        <5>3. CASE ~MayOwe(q)
          <6>1. request[r].incrs = 0 BY <1>4, <5>3
          <6> QED BY <5>1, <6>1
        <5> QED BY <3>2, <5>2, <5>3
      <4> QED BY <2>2, <4>2, <4>3
    <3> QED BY <3>1, <3>2
  <2> QED BY <2>3 DEF CountersExpire
<1> QED BY <1>9, <1>10, <1>11, <1>12 DEF AInv

\* EXPIRE: the counter has its TTL from here on.
LEMMA ExpireAInv ==
  ASSUME AInv, NEW r \in Requests, Expire(r)
  PROVE  AInv'
<1>0. /\ request[r] \in RequestState /\ RequestFits(request[r])
      /\ request[r].pc = "expire" /\ request \in [Requests -> RequestState]
      /\ counter \in [CounterKeys -> [count : Nat, ttl : BOOLEAN]]
  BY DEF AInv, TypeOK, RequestsFit, Expire
<1>1. PICK key \in CounterKeys :
        key = CounterOf(r) /\ key = <<request[r].project, request[r].window>>
  BY <1>0 DEF RequestFits, CounterOf, CounterKeys, RequestState
<1>2. PICK pc \in {"limited", "throttle", "expire"} :
        RequestTo(r, pc) \/ (pc = "expire" /\ UNCHANGED request)
  <2>1. CASE UNCHANGED request BY <2>1
  <2>2. CASE ~UNCHANGED request
    <3>1. RequestTo(r, IF OverLimit(request[r].count, request[r].limit)
                       THEN "limited" ELSE "throttle")
      BY <2>2 DEF Expire
    <3>2. PICK pc \in {"limited", "throttle"} :
            pc = IF OverLimit(request[r].count, request[r].limit)
                 THEN "limited" ELSE "throttle"
      OBVIOUS
    <3>3. RequestTo(r, pc) BY <3>1, <3>2
    <3> QED BY <3>3
  <2> QED BY <2>1, <2>2
<1>3. PICK q \in RequestState :
        /\ request' = [request EXCEPT ![r] = q] /\ q.pc = pc
        /\ q.incrs = request[r].incrs /\ q.project = request[r].project
        /\ q.window = request[r].window /\ q.apiKey = request[r].apiKey
        /\ q.cut = request[r].cut
  <2> DEFINE q == [request[r] EXCEPT !.pc = pc]
  <2>1. /\ q \in RequestState /\ q.pc = pc
        /\ q.incrs = request[r].incrs /\ q.project = request[r].project
        /\ q.window = request[r].window /\ q.apiKey = request[r].apiKey
        /\ q.cut = request[r].cut
    BY <1>0 DEF RequestState
  <2>2. request' = [request EXCEPT ![r] = q]
    <3>1. CASE RequestTo(r, pc) BY <3>1 DEF RequestTo
    <3>2. CASE pc = "expire" /\ UNCHANGED request
      <4>1. q = request[r] BY <1>0, <3>2 DEF RequestState
      <4> QED BY <1>0, <3>2, <4>1
    <3> QED BY <1>2, <3>1, <3>2
  <2> HIDE DEF q
  <2> QED BY <2>1, <2>2
<1>5. request'[r] = q /\ \A s \in Requests \ {r} : request'[s] = request[s]
  BY <1>0, <1>3
<1>6. counter' = [counter EXCEPT ![key].ttl = (counter[key].count > 0)]
  BY <1>1 DEF Expire
<1>61. (counter[key].count > 0) \in BOOLEAN OBVIOUS
<1>7. /\ counter' \in [CounterKeys -> [count : Nat, ttl : BOOLEAN]]
      /\ counter'[key].count > 0 => counter'[key].ttl
      /\ \A k \in CounterKeys : k # key => counter'[k] = counter[k]
  BY <1>0, <1>1, <1>6, <1>61
<1>8. UNCHANGED <<workspace, project, call, now>> BY DEF Expire, accountVars
<1>9. IInv'
  <2>1. [AccountsNext]_accountVars BY <1>8 DEF accountVars
  <2> QED BY <2>1, NextIInv DEF AInv
<1>10. TypeOK' BY <1>0, <1>3, <1>7, <1>8, <1>9 DEF AInv, TypeOK, IInv
<1>11. RequestsFit'
  <2>1. ASSUME NEW t, RequestFits(t) PROVE RequestFits(t)'
    BY <1>8, <2>1 DEF RequestFits, IssuedFor, IsProject
  <2>2. RequestFits(q) BY <1>0, <1>2, <1>3 DEF RequestFits
  <2> QED BY <1>5, <2>1, <2>2 DEF AInv, RequestsFit
<1>12. CountersExpire'
  <2>1. ASSUME NEW k \in CounterKeys, counter'[k].count > 0, ~counter'[k].ttl
        PROVE  \E s \in CountedIn(k)' : MayOwe(request'[s])
    <3>1. k # key BY <1>7, <2>1
    <3>2. PICK s \in CountedIn(k) : MayOwe(request[s])
      BY <1>7, <2>1, <3>1 DEF AInv, CountersExpire
    <3>3. s # r BY <1>1, <3>1, <3>2 DEF CountedIn
    <3> QED BY <1>5, <3>2, <3>3 DEF CountedIn, CounterOf
  <2> QED BY <2>1 DEF CountersExpire
<1> QED BY <1>9, <1>10, <1>11, <1>12 DEF AInv

\* A Redis command fails, or the instance dies: the request says so.
LEMMA CutAInv ==
  ASSUME AInv, NEW r \in Requests, RedisFails(r) \/ Die(r)
  PROVE  AInv'
<1>0. request[r] \in RequestState /\ RequestFits(request[r])
      /\ request[r].pc \in {"incr", "expire"}
  BY DEF AInv, TypeOK, RequestsFit, RedisFails, Die
<1>1. PICK pc \in {"throttle", "failed"} :
        request' = [request EXCEPT ![r] = [@ EXCEPT !.pc = pc, !.cut = TRUE]]
  BY DEF RedisFails, Die
<1> DEFINE q == [request[r] EXCEPT !.pc = pc, !.cut = TRUE]
<1>2. /\ q \in RequestState /\ q.pc = pc /\ q.cut
      /\ q.incrs = request[r].incrs /\ q.project = request[r].project
      /\ q.window = request[r].window /\ q.apiKey = request[r].apiKey
  BY <1>0 DEF RequestState
<1>3. request' = [request EXCEPT ![r] = q] BY <1>1
<1> HIDE DEF q
<1>4. RequestFits(q) BY <1>0, <1>2 DEF RequestFits
<1>5. MayOwe(q) BY <1>2 DEF MayOwe
<1> QED BY <1>2, <1>3, <1>4, <1>5, RequestMoves DEF RedisFails, Die

\* A counter's key expires.
LEMMA ExpireKeyAInv ==
  ASSUME AInv, NEW key \in CounterKeys, ExpireKey(key)
  PROVE  AInv'
<1>1. UNCHANGED <<workspace, project, call, request, now>> BY DEF ExpireKey, accountVars
<1>2. /\ counter' \in [CounterKeys -> [count : Nat, ttl : BOOLEAN]]
      /\ counter'[key].count = 0
      /\ \A k \in CounterKeys : k # key => counter'[k] = counter[k]
  BY DEF ExpireKey, AInv, TypeOK, Absent
<1>3. IInv'
  <2>1. [AccountsNext]_accountVars BY <1>1 DEF accountVars
  <2> QED BY <2>1, NextIInv DEF AInv
<1>4. TypeOK' BY <1>1, <1>2, <1>3 DEF AInv, TypeOK, IInv
<1>5. RequestsFit'
  BY <1>1 DEF AInv, RequestsFit, RequestFits, IssuedFor, IsProject
<1>6. CountersExpire'
  BY <1>1, <1>2 DEF AInv, CountersExpire, CountedIn, CounterOf
<1> QED BY <1>3, <1>4, <1>5, <1>6 DEF AInv

-------------------------------------------------------------------------------
LEMMA NextAInv == AInv /\ [Next]_vars => AInv'
<1> SUFFICES ASSUME AInv, [Next]_vars PROVE AInv'
  OBVIOUS
<1>1. CASE AccountsNext /\ UNCHANGED admissionVars BY <1>1, AccountsAInv
<1>2. ASSUME NEW r \in Requests, RequestStep(r) PROVE AInv'
  <2>1. CASE Send(r) BY <2>1, SendAInv
  <2>2. CASE FindProject(r) BY <2>2, FindProjectAInv
  <2>3. CASE ReadLimit(r) BY <2>3, ReadLimitAInv
  <2>4. CASE Incr(r) BY <2>4, IncrAInv
  <2>5. CASE Expire(r) BY <2>5, ExpireAInv
  <2>6. CASE RedisFails(r) \/ Die(r) BY <2>6, CutAInv
  <2>7. CASE Throttle(r) BY <2>7, PcMoves DEF Throttle
  <2>8. CASE CheckOrigin(r)
    <3>1. PICK pc \in {"admitted", "forbidden"} : EndRequest(r, pc)
      BY <2>8 DEF CheckOrigin
    <3> QED BY <2>8, <3>1, PcMoves DEF CheckOrigin
  <2>9. CASE FailRequest(r)
    BY <2>9, PcMoves DEF FailRequest
  <2> QED
    BY <1>2, <2>1, <2>2, <2>3, <2>4, <2>5, <2>6, <2>7, <2>8, <2>9 DEF RequestStep
<1>3. CASE Tick
  <2>1. UNCHANGED <<workspace, project, call, request, counter>> /\ now' \in Windows
    BY <1>3, AdmissionAssumption DEF Tick, accountVars, AInv, TypeOK, Windows
  <2>2. IInv'
    <3>1. [AccountsNext]_accountVars BY <2>1 DEF accountVars
    <3> QED BY <3>1, NextIInv DEF AInv
  <2>3. TypeOK' BY <2>1, <2>2 DEF AInv, TypeOK, IInv
  <2>4. RequestsFit' BY <2>1 DEF AInv, RequestsFit, RequestFits, IssuedFor, IsProject
  <2>5. CountersExpire' BY <2>1 DEF AInv, CountersExpire, CountedIn, CounterOf
  <2> QED BY <2>2, <2>3, <2>4, <2>5 DEF AInv
<1>4. CASE \E k \in CounterKeys : ExpireKey(k) BY <1>4, ExpireKeyAInv
<1>5. CASE UNCHANGED vars
  <2>1. UNCHANGED <<workspace, project, call, request, counter, now>>
    BY <1>5 DEF vars, accountVars, admissionVars
  <2>2. IInv'
    <3>1. [AccountsNext]_accountVars BY <2>1 DEF accountVars
    <3> QED BY <3>1, NextIInv DEF AInv
  <2>3. TypeOK' BY <2>1, <2>2 DEF AInv, TypeOK, IInv
  <2>4. RequestsFit' BY <2>1 DEF AInv, RequestsFit, RequestFits, IssuedFor, IsProject
  <2>5. CountersExpire' BY <2>1 DEF AInv, CountersExpire, CountedIn, CounterOf
  <2> QED BY <2>2, <2>3, <2>4, <2>5 DEF AInv
<1> QED BY <1>1, <1>2, <1>3, <1>4, <1>5 DEF Next

LEMMA AdmissionInductive == Spec => []AInv
  BY InitAInv, NextAInv, PTL DEF Spec

\* Every state of the guards is well typed.
THEOREM TypeCorrect == Spec => []TypeOK
  BY AdmissionInductive, AInvIsEnough, PTL

\* A request acts for the project its key was generated for, and nobody changes
\* a project of another workspace.
THEOREM TenantsStayApart == Spec => []TenantsApart
  BY AdmissionInductive, AInvIsEnough, PTL

\* Only a request that is about to set it, that Redis or its instance failed, or
\* whose INCR was executed again without its being told that it was the first,
\* leaves a counter without a TTL.
THEOREM CountersDoExpire == Spec => []CountersExpire
  BY AdmissionInductive, AInvIsEnough, PTL

-------------------------------------------------------------------------------
(* The rate limit.  LimitExact compares what requests have in hand with how *)
(* many INCRs were executed; it is not inductive, because a counter's key   *)
(* may expire while requests of its minute are under way.  What is          *)
(* inductive ranks the requests of a minute by the answers of their INCR.   *)

\* The requests of key k that INCR answered before their minute was over.
InTime(k) == {r \in CountedIn(k) : request[r].count # 0 /\ ~request[r].late}

\* The answer of its INCR is in a request's hand from then on, and says on
\* which side of its limit it is.
RankFits(q) ==
    /\ q.pc \in {"idle", "key", "limit", "incr"} => q.count = 0
    /\ q.count # 0 => q.incrs > 0
    /\ q.pc = "expire" => q.count = 1
    /\ q.pc = "limited" => q.incrs > 0 /\ q.count > q.limit
    /\ q.pc # "limited" => q.count <= q.limit

RankedRequests == \A r \in Requests : RankFits(request[r])

\* No answer, and no counter, exceeds the number of INCRs executed; answers
\* in time are distinct, and while the minute lasts the counter bounds them.
Ranked(k) ==
    /\ counter[k].count <= Cardinality(Increments(k))
    /\ \A r \in CountedIn(k) : request[r].count <= Cardinality(Increments(k))
    /\ \A r \in InTime(k) : now <= k[2] => request[r].count <= counter[k].count
    /\ \A r, s \in InTime(k) : r # s => request[r].count # request[s].count

RankedCounters == \A k \in CounterKeys : Ranked(k)

LInv == AInv /\ RankedRequests /\ RankedCounters

LEMMA IncrementsFinite ==
  ASSUME NEW k
  PROVE  IsFiniteSet(Increments(k)) /\ Cardinality(Increments(k)) \in Nat
<1>1. IsFiniteSet(1..MaxSends)
  <2>1. 1 \in Int /\ MaxSends \in Int BY AdmissionAssumption
  <2> QED BY <2>1, FS_Interval
<1>2. IsFiniteSet(Requests \X (1..MaxSends))
  BY <1>1, AdmissionAssumption, FS_Product
<1>3. Increments(k) \subseteq Requests \X (1..MaxSends) BY DEF Increments
<1>4. IsFiniteSet(Increments(k)) BY <1>2, <1>3, FS_Subset
<1> QED BY <1>4, FS_CardinalityType

LEMMA InitLInv == Init => LInv
<1> SUFFICES ASSUME Init PROVE LInv
  OBVIOUS
<1>1. AInv BY InitAInv
<1>2. RankedRequests
  BY AdmissionAssumption DEF Init, RankedRequests, RankFits, IdleRequest
<1>3. RankedCounters
  <2>1. ASSUME NEW k \in CounterKeys PROVE Ranked(k)
    <3>1. CountedIn(k) = {} BY DEF Init, CountedIn, IdleRequest
    <3>2. InTime(k) = {} BY <3>1 DEF InTime
    <3>3. counter[k].count = 0 BY DEF Init, Absent
    <3> QED BY <3>1, <3>2, <3>3, IncrementsFinite DEF Ranked
  <2> QED BY <2>1 DEF RankedCounters
<1> QED BY <1>1, <1>2, <1>3 DEF LInv

\* The invariant is enough: answers are distinct numbers within the limit, and
\* one above it needs as many INCRs before it.
LEMMA LInvIsEnough == LInv => LimitExact
<1> SUFFICES ASSUME LInv, NEW k \in CounterKeys
             PROVE  /\ \A r \in LetThrough(k) :
                         Cardinality({s \in LetThrough(k) :
                               request[s].limit <= request[r].limit})
                            <= request[r].limit
                    /\ \A r \in CountedIn(k) : request[r].pc = "limited" =>
                         Cardinality(Increments(k)) > request[r].limit
  BY DEF LimitExact
<1>0. /\ \A r \in Requests : request[r] \in RequestState /\ RankFits(request[r])
      /\ Ranked(k)
  BY DEF LInv, AInv, TypeOK, RankedRequests, RankedCounters
<1>1. ASSUME NEW q \in RequestState PROVE q.limit \in Nat \ {0} /\ q.count \in Nat
  BY AccountsAssumption, AdmissionAssumption DEF RequestState
<1>2. ASSUME NEW r \in LetThrough(k)
      PROVE  Cardinality({s \in LetThrough(k) : request[s].limit <= request[r].limit})
                <= request[r].limit
  <2> DEFINE n == request[r].limit
             S == {s \in LetThrough(k) : request[s].limit <= n}
             f == [s \in S |-> request[s].count]
  <2>1. r \in Requests BY DEF LetThrough, CountedIn
  <2>2. n \in Nat BY <1>0, <1>1, <2>1
  <2>3. ASSUME NEW s \in S
        PROVE  s \in InTime(k) /\ request[s].count \in 1..n
    <3>1. /\ s \in Requests /\ request[s].count # 0 /\ request[s].pc # "limited"
          /\ s \in InTime(k)
      BY DEF LetThrough, InTime, CountedIn
    <3>2. request[s].count <= request[s].limit BY <1>0, <3>1 DEF RankFits
    <3>3. request[s].limit \in Nat /\ request[s].count \in Nat BY <1>0, <1>1, <3>1
    <3> QED BY <2>2, <3>1, <3>2, <3>3
  <2>4. \A s, t \in S : s # t => f[s] # f[t]
    BY <1>0, <2>3 DEF Ranked
  <2>5. f \in Injection(S, 1..n)
    <3>1. f \in [S -> 1..n] BY <2>3
    <3> QED BY <2>4, <3>1 DEF Injection, IsInjective
  <2> HIDE DEF n, S, f
  <2>6. IsFiniteSet(1..n) /\ Cardinality(1..n) = n
    <3>1. /\ IsFiniteSet(1..n)
          /\ Cardinality(1..n) = IF 1 > n THEN 0 ELSE n - 1 + 1
      BY <2>2, FS_Interval
    <3>2. 1 > n <=> n = 0 BY <2>2
    <3> QED BY <2>2, <3>1, <3>2
  <2>7. Cardinality(S) <= Cardinality(1..n)
    BY <2>5, <2>6, FS_Injection
  <2> QED BY <2>6, <2>7 DEF S, n
<1>3. ASSUME NEW r \in CountedIn(k), request[r].pc = "limited"
      PROVE  Cardinality(Increments(k)) > request[r].limit
  <2>1. r \in Requests BY DEF CountedIn
  <2>3. /\ request[r].count <= Cardinality(Increments(k))
        /\ request[r].count > request[r].limit
    BY <1>0, <1>3, <2>1 DEF Ranked, RankFits
  <2>4. request[r].limit \in Nat /\ request[r].count \in Nat BY <1>0, <1>1, <2>1
  <2> QED BY <2>3, <2>4, IncrementsFinite
<1> QED BY <1>2, <1>3

-------------------------------------------------------------------------------
(* The steps                                                                *)

\* Requests keep what they were counted by.
RanksStay ==
    \A s \in Requests :
        /\ request'[s].incrs = request[s].incrs
        /\ request'[s].count = request[s].count
        /\ request'[s].late = request[s].late
        /\ request[s].incrs > 0 => /\ request'[s].project = request[s].project
                                   /\ request'[s].window = request[s].window

\* Time goes on and counters of past minutes may go: the ranking holds.
LEMMA RanksHold ==
  ASSUME LInv, RanksStay, now' \in Windows, now <= now', NEW key \in CounterKeys,
         counter'[key].count = counter[key].count
            \/ (counter'[key].count = 0 /\ now' > key[2])
  PROVE  Ranked(key)'
<1>1. CountedIn(key)' = CountedIn(key)
  BY DEF RanksStay, CountedIn, CounterOf
<1>2. InTime(key)' = InTime(key)
  BY <1>1 DEF RanksStay, InTime, CountedIn
<1>3. Ranked(key) BY DEF LInv, RankedCounters
<1>4. /\ now \in Int /\ now' \in Int /\ key[2] \in Int
      /\ counter[key].count \in Nat
  BY AdmissionAssumption DEF LInv, AInv, TypeOK, Windows, CounterKeys
<1>8. Increments(key)' = Increments(key)
  <2>1. ASSUME NEW i \in Requests \X (1..MaxSends)
        PROVE  /\ request'[i[1]].incrs = request[i[1]].incrs
               /\ i[2] <= request[i[1]].incrs => CounterOf(i[1])' = CounterOf(i[1])
    <3>1. /\ i[1] \in Requests /\ i[2] \in Int /\ 1 <= i[2]
          /\ request[i[1]].incrs \in Int
      BY AdmissionAssumption DEF LInv, AInv, TypeOK, RequestState
    <3>2. i[2] <= request[i[1]].incrs => request[i[1]].incrs > 0 BY <3>1
    <3> QED BY <3>1, <3>2 DEF RanksStay, CounterOf
  <2> QED BY <2>1 DEF Increments
<1>5. counter'[key].count <= Cardinality(Increments(key))
  BY <1>3, <1>4, IncrementsFinite DEF Ranked
<1>6. \A r \in InTime(key) : now' <= key[2] => request'[r].count <= counter'[key].count
  BY <1>3, <1>4 DEF Ranked, RanksStay, InTime, CountedIn
<1>7. /\ \A r \in CountedIn(key) : request'[r].count <= Cardinality(Increments(key))
      /\ \A r, s \in InTime(key) : r # s => request'[r].count # request'[s].count
  BY <1>3 DEF Ranked, RanksStay, InTime, CountedIn
<1> QED BY <1>1, <1>2, <1>5, <1>6, <1>7, <1>8 DEF Ranked

LEMMA RanksHoldForAll ==
  ASSUME LInv, AInv', RankedRequests', RanksStay, now' \in Windows, now <= now',
         \A k \in CounterKeys : counter'[k].count = counter[k].count
            \/ (counter'[k].count = 0 /\ now' > k[2])
  PROVE  LInv'
<1>1. RankedCounters' BY RanksHold DEF RankedCounters
<1> QED BY <1>1 DEF LInv

\* No request changes.
LEMMA IdleStep ==
  ASSUME LInv, AInv', UNCHANGED request, now' \in Windows, now <= now',
         \A k \in CounterKeys : counter'[k].count = counter[k].count
            \/ (counter'[k].count = 0 /\ now' > k[2])
  PROVE  LInv'
<1>1. RankedRequests' BY DEF LInv, RankedRequests
<1>2. RanksStay BY DEF RanksStay
<1> QED BY <1>1, <1>2, RanksHoldForAll

\* A step of r that counts nothing.
LEMMA QuietStep ==
  ASSUME LInv, AInv', NEW r \in Requests, UNCHANGED <<counter, now>>,
         \A s \in Requests \ {r} : request'[s] = request[s],
         RankFits(request'[r]),
         request'[r].incrs = request[r].incrs,
         request'[r].count = request[r].count,
         request'[r].late = request[r].late,
         request[r].incrs > 0 => /\ request'[r].project = request[r].project
                                 /\ request'[r].window = request[r].window
  PROVE  LInv'
<1>1. RankedRequests' BY DEF LInv, RankedRequests
<1>2. RanksStay BY DEF RanksStay
<1>3. now <= now' /\ now' \in Windows
  BY AdmissionAssumption DEF LInv, AInv, TypeOK, Windows
<1>4. \A k \in CounterKeys : \/ counter'[k].count = counter[k].count
                             \/ (counter'[k].count = 0 /\ now' > k[2])
  OBVIOUS
<1> QED BY <1>1, <1>2, <1>3, <1>4, RanksHoldForAll

LEMMA SendLInv ==
  ASSUME LInv, AInv', NEW r \in Requests, Send(r)
  PROVE  LInv'
<1>0. /\ request[r] \in RequestState /\ RankFits(request[r])
      /\ RequestFits(request[r]) /\ request \in [Requests -> RequestState]
  BY DEF LInv, AInv, TypeOK, RequestsFit, RankedRequests
<1>1. PICK key, origin :
        request' = [request EXCEPT ![r] = [@ EXCEPT !.pc = "key",
                       !.apiKey = key, !.origin = origin]]
  BY DEF Send
<1>2. /\ \A s \in Requests \ {r} : request'[s] = request[s]
      /\ request'[r].pc = "key" /\ request'[r].incrs = request[r].incrs
      /\ request'[r].count = request[r].count /\ request'[r].late = request[r].late
      /\ request'[r].limit = request[r].limit
  BY <1>0, <1>1 DEF RequestState
<1>3. RankFits(request'[r]) BY <1>0, <1>2 DEF RankFits, Send
<1>4. UNCHANGED <<counter, now>> /\ ~(request[r].incrs > 0)
  BY <1>0 DEF Send, RequestFits
<1> QED BY <1>2, <1>3, <1>4, QuietStep

\* Where r goes changes nothing of what it was counted by.
SameCount(r, pc) ==
    /\ \A s \in Requests \ {r} : request'[s] = request[s]
    /\ request'[r].pc = pc
    /\ request'[r].incrs = request[r].incrs
    /\ request'[r].count = request[r].count
    /\ request'[r].late = request[r].late
    /\ request'[r].limit = request[r].limit
    /\ request'[r].window = request[r].window

LEMMA MovesSameCount ==
  ASSUME request \in [Requests -> RequestState], NEW r \in Requests, NEW pc,
         \/ RequestTo(r, pc)
         \/ EndRequest(r, pc)
         \/ request' = [request EXCEPT ![r] = [@ EXCEPT !.pc = pc, !.cut = TRUE]]
  PROVE  SameCount(r, pc) /\ request'[r].project = request[r].project
<1>0. request[r] \in RequestState OBVIOUS
<1>1. CASE RequestTo(r, pc) BY <1>0, <1>1 DEF RequestTo, RequestState, SameCount
<1>2. CASE EndRequest(r, pc)
  <2>1. request'[r] = [request[r] EXCEPT !.pc = pc, !.origin = None, !.domain = None]
        /\ \A s \in Requests \ {r} : request'[s] = request[s]
    BY <1>2 DEF EndRequest
  <2> QED BY <1>0, <2>1 DEF RequestState, SameCount
<1>3. CASE request' = [request EXCEPT ![r] = [@ EXCEPT !.pc = pc, !.cut = TRUE]]
  BY <1>0, <1>3 DEF RequestState, SameCount
<1> QED BY <1>1, <1>2, <1>3

LEMMA FindProjectLInv ==
  ASSUME LInv, AInv', NEW r \in Requests, FindProject(r)
  PROVE  LInv'
<1>0. /\ request[r] \in RequestState /\ RankFits(request[r])
      /\ RequestFits(request[r]) /\ request \in [Requests -> RequestState]
  BY DEF LInv, AInv, TypeOK, RequestsFit, RankedRequests
<1>1. SameCount(r, "limit") \/ SameCount(r, "unauthorized")
  <2>1. CASE EndRequest(r, "unauthorized") BY <1>0, <2>1, MovesSameCount
  <2>2. CASE ~EndRequest(r, "unauthorized")
    <3>1. PICK p, domain :
            request' = [request EXCEPT ![r] = [@ EXCEPT !.pc = "limit",
                           !.project = p, !.domain = domain]]
      BY <2>2 DEF FindProject
    <3> QED BY <1>0, <3>1 DEF RequestState, SameCount
  <2> QED BY <2>1, <2>2
<1>2. RankFits(request'[r]) BY <1>0, <1>1 DEF RankFits, FindProject, SameCount
<1>3. UNCHANGED <<counter, now>> /\ ~(request[r].incrs > 0)
  BY <1>0 DEF FindProject, RequestFits
<1> QED BY <1>1, <1>2, <1>3, QuietStep DEF SameCount

LEMMA ReadLimitLInv ==
  ASSUME LInv, AInv', NEW r \in Requests, ReadLimit(r)
  PROVE  LInv'
<1>0. /\ request[r] \in RequestState /\ RankFits(request[r])
      /\ RequestFits(request[r]) /\ request \in [Requests -> RequestState]
      /\ request'[r] \in RequestState
  BY DEF LInv, AInv, TypeOK, RequestsFit, RankedRequests
<1>1. /\ \A s \in Requests \ {r} : request'[s] = request[s]
      /\ request'[r].pc = "incr" /\ request'[r].incrs = request[r].incrs
      /\ request'[r].count = request[r].count /\ request'[r].late = request[r].late
  BY <1>0 DEF ReadLimit, RequestState
<1>2. request'[r].limit \in Nat
  BY <1>0, AccountsAssumption, AdmissionAssumption DEF RequestState
<1>3. RankFits(request'[r]) BY <1>0, <1>1, <1>2 DEF RankFits, ReadLimit
<1>4. UNCHANGED <<counter, now>> /\ ~(request[r].incrs > 0)
  BY <1>0 DEF ReadLimit, RequestFits
<1> QED BY <1>1, <1>3, <1>4, QuietStep

\* What a request was counted by is not touched by where it goes next.
LEMMA PcLInv ==
  ASSUME LInv, AInv', NEW r \in Requests,
         RedisFails(r) \/ Throttle(r) \/ CheckOrigin(r) \/ FailRequest(r) \/ Die(r)
  PROVE  LInv'
<1>0. /\ request[r] \in RequestState /\ RankFits(request[r])
      /\ request \in [Requests -> RequestState]
      /\ request[r].count \in Nat /\ request[r].limit \in Nat \ {0}
  BY AccountsAssumption, AdmissionAssumption
     DEF LInv, AInv, TypeOK, RankedRequests, RequestState
<1>1. PICK pc \in {"throttle", "origin", "throttled", "admitted", "forbidden", "failed"} :
        \/ RequestTo(r, pc)
        \/ EndRequest(r, pc)
        \/ request' = [request EXCEPT ![r] = [@ EXCEPT !.pc = pc, !.cut = TRUE]]
  BY DEF RedisFails, Throttle, CheckOrigin, FailRequest, Die
<1>2. SameCount(r, pc) /\ request'[r].project = request[r].project
  BY <1>0, <1>1, MovesSameCount
<1>3. request[r].pc # "limited"
  BY DEF RedisFails, Throttle, CheckOrigin, FailRequest, Die
<1>4. RankFits(request'[r]) BY <1>0, <1>2, <1>3 DEF RankFits, SameCount
<1>5. UNCHANGED <<counter, now>>
  BY DEF RedisFails, Throttle, CheckOrigin, FailRequest, Die
<1> QED BY <1>2, <1>4, <1>5, QuietStep DEF SameCount

\* EXPIRE: the request was the first of its minute, within any limit.
LEMMA ExpireLInv ==
  ASSUME LInv, AInv', NEW r \in Requests, Expire(r)
  PROVE  LInv'
<1>0. /\ request[r] \in RequestState /\ RankFits(request[r])
      /\ request \in [Requests -> RequestState]
      /\ request[r].pc = "expire" /\ request[r].limit \in Nat \ {0}
  BY AccountsAssumption, AdmissionAssumption
     DEF LInv, AInv, TypeOK, RankedRequests, RequestState, Expire
<1>1. PICK pc \in {"throttle", "expire"} :
        SameCount(r, pc) /\ request'[r].project = request[r].project
  <2>1. CASE UNCHANGED request BY <1>0, <2>1 DEF SameCount
  <2>2. CASE ~UNCHANGED request
    <3>1. RequestTo(r, "throttle")
      BY <1>0, <2>2 DEF Expire, RankFits, OverLimit
    <3> QED BY <1>0, <3>1, MovesSameCount
  <2> QED BY <2>1, <2>2
<1>2. SameCount(r, pc) /\ request'[r].project = request[r].project
  BY <1>1
<1>3. RankFits(request'[r]) BY <1>0, <1>2 DEF RankFits, SameCount
<1>4. RankedRequests' BY <1>2, <1>3 DEF LInv, RankedRequests, SameCount
<1>5. RanksStay BY <1>2 DEF RanksStay, SameCount
<1>6. \A k \in CounterKeys : counter'[k].count = counter[k].count
  BY DEF Expire, LInv, AInv, TypeOK
<1>7. now <= now' /\ now' \in Windows
  BY AdmissionAssumption DEF Expire, LInv, AInv, TypeOK, Windows
<1> QED BY <1>4, <1>5, <1>6, <1>7, RanksHoldForAll

\* INCR: the answer is one more than the counter, so larger than every answer
\* of this minute, and no larger than the number of INCRs executed.
LEMMA IncrLInv ==
  ASSUME LInv, AInv', NEW r \in Requests, Incr(r)
  PROVE  LInv'
<1>0. /\ request[r] \in RequestState /\ RankFits(request[r])
      /\ RequestFits(request[r]) /\ request \in [Requests -> RequestState]
      /\ request[r].pc = "incr" /\ request[r].count = 0
      /\ counter \in [CounterKeys -> [count : Nat, ttl : BOOLEAN]]
      /\ request[r].limit \in Nat \ {0}
  BY AccountsAssumption, AdmissionAssumption
     DEF LInv, AInv, TypeOK, RequestsFit, RankedRequests, RequestState, Incr,
         RequestFits, RankFits
<1>1. PICK key \in CounterKeys :
        key = CounterOf(r) /\ key = <<request[r].project, request[r].window>>
  BY <1>0 DEF RequestFits, CounterOf, CounterKeys, RequestState
<1>2. PICK n \in Nat : n = counter[key].count + 1 /\ n > 0 BY <1>0, <1>1
<1>3. /\ counter'[key].count = n
      /\ \A k \in CounterKeys : k # key => counter'[k] = counter[k]
  BY <1>0, <1>1, <1>2 DEF Incr
<1>4. /\ \A s \in Requests \ {r} : request'[s] = request[s]
      /\ request'[r].incrs = request[r].incrs + 1
      /\ request'[r].project = request[r].project
      /\ request'[r].window = request[r].window
      /\ request'[r].limit = request[r].limit
      /\ \/ /\ request'[r].count = n
            /\ request'[r].pc = Judged(n, request[r].limit)
            /\ request'[r].late = (now > request[r].window)
         \/ request'[r].count = 0 /\ request'[r].pc = "incr"
  <2>1. CASE request' = [request EXCEPT ![r] = [@ EXCEPT !.incrs = request[r].incrs + 1,
                !.late = (now > request[r].window), !.count = n,
                !.pc = Judged(n, request[r].limit)]]
    BY <1>0, <2>1 DEF RequestState
  <2>2. CASE request' = [request EXCEPT ![r].incrs = request[r].incrs + 1]
    BY <1>0, <2>2 DEF RequestState
  <2> QED BY <1>1, <1>2, <2>1, <2>2 DEF Incr
<1>41. /\ request[r].incrs \in Int /\ request[r].incrs + 1 \in 1..MaxSends
  BY <1>0, AdmissionAssumption DEF Incr, RequestState
<1>5. RankFits(request'[r])
  BY <1>0, <1>2, <1>4, <1>41 DEF RankFits, Judged, FirstOfWindow, OverLimit
<1>6. RankedRequests' BY <1>4, <1>5 DEF LInv, RankedRequests
<1>7. UNCHANGED now /\ now \in Int /\ request[r].window \in Int
  BY <1>0, AdmissionAssumption DEF Incr, LInv, AInv, TypeOK, Windows, RequestState
<1>8. ASSUME NEW k \in CounterKeys, k # key
      PROVE  Ranked(k)'
  <2>1. CounterOf(r) # k /\ CounterOf(r)' # k
    BY <1>1, <1>4, <1>8 DEF CounterOf
  <2>2. \A s \in Requests \ {r} : CounterOf(s)' = CounterOf(s) /\ request'[s] = request[s]
    BY <1>4 DEF CounterOf
  <2>3. CountedIn(k)' = CountedIn(k) /\ r \notin CountedIn(k)
    BY <2>1, <2>2 DEF CountedIn
  <2>4. Increments(k)' = Increments(k) BY <2>1, <2>2 DEF Increments
  <2>5. InTime(k)' = InTime(k) BY <2>2, <2>3 DEF InTime, CountedIn
  <2>6. \A s \in CountedIn(k) : request'[s] = request[s]
    BY <2>2, <2>3 DEF CountedIn
  <2>7. Ranked(k) BY DEF LInv, RankedCounters
  <2> QED BY <1>3, <1>7, <1>8, <2>3, <2>4, <2>5, <2>6, <2>7 DEF Ranked, InTime
<1>9. Ranked(key)'
  <2> DEFINE new == <<r, request[r].incrs + 1>>
  <2>1. r \notin InTime(key) BY <1>0 DEF InTime
  <2>2. CountedIn(key)' = CountedIn(key) \cup {r}
    BY <1>1, <1>4, <1>41 DEF CountedIn, CounterOf
  <2>3. PICK c \in Nat : c = Cardinality(Increments(key)) BY IncrementsFinite
  <2>4. Cardinality(Increments(key)') = c + 1
    <3>1. CounterOf(r)' = key /\ CounterOf(r) = key BY <1>1, <1>4 DEF CounterOf
    <3>2. \A s \in Requests \ {r} : CounterOf(s)' = CounterOf(s) /\ request'[s] = request[s]
      BY <1>4 DEF CounterOf
    <3>3. ASSUME NEW i \in Requests \X (1..MaxSends)
          PROVE  i \in Increments(key)' <=> i \in Increments(key) \cup {new}
      <4>1. CASE i[1] = r
        <5>1. i = <<r, i[2]>> /\ i[2] \in Int BY <4>1
        <5>2. i = new <=> i[2] = request[r].incrs + 1 BY <5>1
        <5>3. i \in Increments(key)' <=> i[2] <= request[r].incrs + 1
          BY <1>4, <3>1, <4>1 DEF Increments
        <5>4. i \in Increments(key) <=> i[2] <= request[r].incrs
          BY <3>1, <4>1 DEF Increments
        <5> QED BY <1>41, <5>1, <5>2, <5>3, <5>4
      <4>2. CASE i[1] # r
        <5>1. i # new BY <4>2
        <5>2. i[1] \in Requests \ {r} BY <4>2
        <5> QED BY <3>2, <5>1, <5>2 DEF Increments
      <4> QED BY <4>1, <4>2
    <3>4. new \in Requests \X (1..MaxSends) /\ new \notin Increments(key)
      <4>1. ~(request[r].incrs + 1 <= request[r].incrs) BY <1>41
      <4> QED BY <1>41, <4>1 DEF Increments
    <3>5. Increments(key)' = Increments(key) \cup {new}
      BY <3>3, <3>4 DEF Increments
    <3> HIDE DEF new
    <3> QED BY <2>3, <3>4, <3>5, IncrementsFinite, FS_AddElement
  <2> HIDE DEF new
  <2>5. Ranked(key) BY DEF LInv, RankedCounters
  <2>6. \A s \in CountedIn(key) \ {r} : request'[s] = request[s]
                                        /\ request[s].count \in Nat
    BY <1>4 DEF CountedIn, RequestState, LInv, AInv, TypeOK
  <2>7. counter[key].count \in Nat /\ n <= c + 1
    BY <1>0, <1>2, <2>3, <2>5 DEF Ranked
  <2>8. \A s \in CountedIn(key)' : request'[s].count <= c + 1
    <3>1. request'[r].count <= c + 1 BY <1>4, <2>7
    <3>2. ASSUME NEW s \in CountedIn(key) \ {r} PROVE request'[s].count <= c + 1
      BY <2>3, <2>5, <2>6 DEF Ranked
    <3> QED BY <2>2, <3>1, <3>2
  <2>9. \A s \in InTime(key)' : s = r \/ s \in InTime(key)
    BY <2>2, <2>6 DEF InTime
  <2>91. \A s \in InTime(key) : s \in CountedIn(key) \ {r} BY <2>1 DEF InTime
  <2>10. key[2] = request[r].window BY <1>1
  <2>11. \A s \in InTime(key) : now <= key[2] => request'[s].count < n
    BY <1>2, <2>5, <2>6, <2>7, <2>91 DEF Ranked
  <2>12. r \in InTime(key)' => now <= key[2] /\ request'[r].count = n
    <3>1. SUFFICES ASSUME r \in InTime(key)'
                   PROVE  now <= key[2] /\ request'[r].count = n
      OBVIOUS
    <3>2. ~request'[r].late /\ request'[r].count # 0 BY <3>1 DEF InTime
    <3>3. ~(now > request[r].window) BY <1>4, <3>2
    <3> QED BY <1>4, <1>7, <2>10, <3>2, <3>3
  <2>13. \A s \in InTime(key)' : now <= key[2] => request'[s].count <= n
    BY <1>2, <2>6, <2>9, <2>91, <2>11, <2>12
  <2>14. \A s, t \in InTime(key)' : s # t => request'[s].count # request'[t].count
    <3>1. ASSUME NEW s \in InTime(key), NEW t \in InTime(key), s # t
          PROVE  request'[s].count # request'[t].count
      BY <2>5, <2>6, <2>91, <3>1 DEF Ranked
    <3>2. ASSUME NEW s \in InTime(key), r \in InTime(key)'
          PROVE  request'[s].count # request'[r].count
      BY <2>6, <2>91, <2>11, <2>12, <3>2
    <3> QED BY <2>9, <3>1, <3>2
  <2> QED BY <1>3, <1>7, <2>4, <2>7, <2>8, <2>13, <2>14 DEF Ranked
<1>10. RankedCounters' BY <1>8, <1>9 DEF RankedCounters, CounterKeys
<1> QED BY <1>6, <1>10 DEF LInv

-------------------------------------------------------------------------------
LEMMA NextLInv == LInv /\ [Next]_vars => LInv'
<1> SUFFICES ASSUME LInv, [Next]_vars PROVE LInv'
  OBVIOUS
<1>0. AInv' BY NextAInv DEF LInv
<1>1. now \in Windows /\ now <= now
  BY AdmissionAssumption DEF LInv, AInv, TypeOK, Windows
<1>2. CASE UNCHANGED admissionVars
  BY <1>0, <1>1, <1>2, IdleStep DEF admissionVars
<1>3. ASSUME NEW r \in Requests, RequestStep(r) PROVE LInv'
  BY <1>0, <1>3, SendLInv, FindProjectLInv, ReadLimitLInv, PcLInv, ExpireLInv,
     IncrLInv DEF RequestStep
<1>4. CASE Tick
  <2>1. now <= now' /\ now' \in Windows
    BY <1>4, AdmissionAssumption DEF Tick, LInv, AInv, TypeOK, Windows
  <2> QED BY <1>0, <1>4, <2>1, IdleStep DEF Tick
<1>5. ASSUME NEW key \in CounterKeys, ExpireKey(key) PROVE LInv'
  <2>1. UNCHANGED <<request, now>> BY <1>5 DEF ExpireKey
  <2>2. \A k \in CounterKeys : \/ counter'[k].count = counter[k].count
                               \/ (counter'[k].count = 0 /\ now' > k[2])
    BY <1>5, <2>1 DEF ExpireKey, Absent, LInv, AInv, TypeOK
  <2> QED BY <1>0, <1>1, <2>1, <2>2, IdleStep
<1> QED BY <1>2, <1>3, <1>4, <1>5 DEF Next, vars

\* No more requests pass by their count than a limit allows, and none is
\* answered 429 before Redis executed more INCRs than its limit in its minute,
\* however often it executed the same one.
THEOREM LimitIsExact == Spec => []LimitExact
  BY InitLInv, NextLInv, LInvIsEnough, PTL DEF Spec
================================================================================
