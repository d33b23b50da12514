-------------------------------- MODULE Accounts --------------------------------
(***************************************************************************)
(* The dashboard's writes: AuthService.register, ProjectsService.create,   *)
(* update and rotateApiKey, and TrackerService.updateConfig, over the      *)
(* tables Workspace, User and Project.                                     *)
(*                                                                         *)
(* Every call first looks (for a free name, or whether the project is the  *)
(* caller's) and writes later, one Prisma call after the other; calls      *)
(* interleave in between and rely on the unique constraints of the schema. *)
(* A row is named after the call that creates it, and so is a key; a slug  *)
(* is the sequence of its parts, so that "site-1" is a base of its own and *)
(* also the first suffix of "site".                                        *)
(***************************************************************************)
EXTENDS Integers, Sequences

CONSTANTS
    Calls,     \* calls of the dashboard, each made at most once
    Home,      \* a workspace that exists from the start
    Site,      \* its project, and that project's first key
    Owner,     \* the e-mail address of its owner
    Emails,
    Bases,     \* slugified names: sequences
    SiteBase,  \* the slug of Home and of Site
    Limits,    \* values of rateLimitPerMinute
    Domains,   \* host names a project may be given
    Kinds,     \* the calls a run makes
    None

ASSUME AccountsAssumption ==
    /\ Bases \subseteq Seq(Nat) /\ SiteBase \in Bases
    /\ Owner \in Emails
    /\ Limits \subseteq Nat \ {0}
    /\ Kinds \subseteq {"register", "create", "update", "rotate", "configure"}
    /\ Home \notin Calls /\ Site \notin Calls
    /\ None \notin Calls \cup {Home, Site} \cup Emails \cup Limits \cup Domains

Workspaces == Calls \cup {Home}
Projects   == Calls \cup {Site}
Keys       == Calls \cup {Site}     \* a key is named after who generated it

VARIABLES
    workspace,  \* Workspace with its OWNER, who is created along with it
    project,    \* the table Project
    call        \* where each call is, and what it has in hand

accountVars == <<workspace, project, call>>

\* An empty list and none are the same to whoever reads them.
HostLists == (SUBSET Domains \ {{}}) \cup {None}

\* Project.trackerConfig; None is an absent field.  custom stands for the
\* fields UpdateTrackerConfigDto has not (attributionModel, sdkFlags, ...).
Config == [rateLimitPerMinute : Limits \cup {None},
           allowedDomains : HostLists,
           custom : BOOLEAN]
NoConfig == [rateLimitPerMinute |-> None, allowedDomains |-> None, custom |-> FALSE]
ConfigDto == [rateLimitPerMinute : Limits \cup {None},
              allowedDomains : HostLists]
EmptyDto == [rateLimitPerMinute |-> None, allowedDomains |-> None]

WorkspaceRow == [base : Bases, suffix : Nat, email : Emails]
ProjectRow == [workspace : Workspaces, base : Bases, suffix : Nat,
               apiKey : Keys, domain : Domains \cup {None}, config : Config]

ASSUME RowsAssumption == None \notin WorkspaceRow /\ None \notin ProjectRow

CallState ==
    [pc        : {"idle", "email", "slug", "insert", "own", "read", "write",
                  "done", "refused", "failed"},
     kind      : Kinds \cup {None},
     workspace : Workspaces \cup {None},   \* of the user behind the call
     project   : Projects \cup {None},     \* the id in its URL
     email     : Emails \cup {None},
     base      : Bases \cup {<<>>},
     suffix    : Nat,
     domain    : Domains \cup {None},
     dto       : ConfigDto,
     existing  : Config]                   \* what updateConfig read

IdleCall == [pc |-> "idle", kind |-> None, workspace |-> None, project |-> None,
             email |-> None, base |-> <<>>, suffix |-> 0, domain |-> None,
             dto |-> EmptyDto, existing |-> NoConfig]

AccountsTypeOK ==
    /\ workspace \in [Workspaces -> WorkspaceRow \cup {None}]
    /\ project \in [Projects -> ProjectRow \cup {None}]
    /\ call \in [Calls -> CallState]

AccountsInit ==
    /\ workspace = [w \in Workspaces |-> IF w = Home
          THEN [base |-> SiteBase, suffix |-> 0, email |-> Owner] ELSE None]
    /\ project = [p \in Projects |-> IF p = Site
          THEN [workspace |-> Home, base |-> SiteBase, suffix |-> 0,
                apiKey |-> Site, domain |-> None,
                config |-> [NoConfig EXCEPT !.custom = TRUE]]
          ELSE None]
    /\ call = [c \in Calls |-> IdleCall]

-------------------------------------------------------------------------------
Slug(base, suffix) == IF suffix = 0 THEN base ELSE Append(base, suffix)

SlugOf(row) == Slug(row.base, row.suffix)

\* A workspace's slug is unique, a project's is within its workspace.  (s is
\* what a call has in hand.)
Taken(s, suffix) ==
    LET slug == Slug(s.base, suffix) IN
    IF s.kind = "register"
    THEN \E w \in Workspaces : workspace[w] # None /\ SlugOf(workspace[w]) = slug
    ELSE \E p \in Projects :
            /\ project[p] # None
            /\ project[p].workspace = s.workspace
            /\ SlugOf(project[p]) = slug

EmailTaken(s) ==
    \E w \in Workspaces : workspace[w] # None /\ workspace[w].email = s.email

CallTo(c, pc) == call' = [call EXCEPT ![c].pc = pc]

\* A call that was answered: what it had in hand is gone.
Ended(c, pc) ==
    [IdleCall EXCEPT !.pc = pc, !.kind = call[c].kind,
        !.workspace = call[c].workspace, !.project = call[c].project]

EndCall(c, pc) == call' = [call EXCEPT ![c] = Ended(c, pc)]

-------------------------------------------------------------------------------
(* The calls                                                                *)

Register(c) ==
    \E email \in Emails, base \in Bases :
        call' = [call EXCEPT ![c] = [@ EXCEPT !.pc = "email",
                    !.kind = "register", !.email = email, !.base = base]]

CreateProject(c) ==
    \E w \in Workspaces, base \in Bases, domain \in Domains \cup {None} :
        /\ workspace[w] # None
        /\ call' = [call EXCEPT ![c] = [@ EXCEPT !.pc = "slug", !.kind = "create",
                       !.workspace = w, !.base = base, !.domain = domain]]

\* update, rotateApiKey and updateConfig name a project of any workspace.
ChangeProject(c, kind) ==
    \E w \in Workspaces, p \in Projects, domain \in Domains \cup {None}, dto \in ConfigDto :
        /\ workspace[w] # None
        /\ kind # "update" => domain = None
        /\ kind # "configure" => dto = EmptyDto
        /\ call' = [call EXCEPT ![c] = [@ EXCEPT !.pc = "own", !.kind = kind,
                       !.workspace = w, !.project = p, !.domain = domain,
                       !.dto = dto]]

StartCall(c) ==
    /\ call[c].pc = "idle"
    /\ \/ "register" \in Kinds /\ Register(c)
       \/ "create" \in Kinds /\ CreateProject(c)
       \/ \E kind \in Kinds \cap {"update", "rotate", "configure"} :
             ChangeProject(c, kind)
    /\ UNCHANGED <<workspace, project>>

-------------------------------------------------------------------------------
(* register and create: look for a free slug, then insert                   *)

CheckEmail(c) ==
    /\ call[c].pc = "email"
    /\ IF EmailTaken(call[c]) THEN EndCall(c, "refused") ELSE CallTo(c, "slug")
    /\ UNCHANGED <<workspace, project>>

\* One turn of the loop over findUnique.
CheckSlug(c) ==
    /\ call[c].pc = "slug"
    /\ IF Taken(call[c], call[c].suffix)
       THEN call' = [call EXCEPT ![c].suffix = @ + 1]
       ELSE CallTo(c, "insert")
    /\ UNCHANGED <<workspace, project>>

\* Mutant of Insertable: the schema has no unique constraints.
Unconstrained(c) == TRUE

\* The unique constraints of the schema let the insert through.
Insertable(c) ==
    /\ ~Taken(call[c], call[c].suffix)
    /\ call[c].kind = "register" => ~EmailTaken(call[c])

\* The workspace and its owner are created by one statement.
Inserted(c) ==
    IF call[c].kind = "register"
    THEN /\ workspace' = [workspace EXCEPT ![c] =
               [base |-> call[c].base, suffix |-> call[c].suffix,
                email |-> call[c].email]]
         /\ UNCHANGED project
    ELSE /\ project' = [project EXCEPT ![c] =
               [workspace |-> call[c].workspace, base |-> call[c].base,
                suffix |-> call[c].suffix, apiKey |-> c,
                domain |-> call[c].domain, config |-> NoConfig]]
         /\ UNCHANGED workspace

\* (Whether the answer of a committed write arrives changes no table.)
Insert(c) ==
    /\ call[c].pc = "insert"
    /\ Insertable(c)
    /\ Inserted(c)
    /\ EndCall(c, "done")

\* P2002: nobody catches it, the call answers 500.
LoseInsert(c) ==
    /\ call[c].pc = "insert"
    /\ ~Insertable(c)
    /\ EndCall(c, "failed")
    /\ UNCHANGED <<workspace, project>>

-------------------------------------------------------------------------------
(* update, rotateApiKey and updateConfig: check the owner, then write       *)

\* Mutant of Owns: the project is looked up by its id alone.
Exists(c) == project[call[c].project] # None

\* findFirst({ id, workspaceId })
Owns(c) ==
    /\ project[call[c].project] # None
    /\ project[call[c].project].workspace = call[c].workspace

AssertOwnership(c) ==
    /\ call[c].pc = "own"
    /\ \/ ~Owns(c) /\ EndCall(c, "refused")
       \/ Owns(c) /\ CallTo(c, IF call[c].kind = "configure" THEN "read" ELSE "write")
    /\ UNCHANGED <<workspace, project>>

ReadConfig(c) ==
    /\ call[c].pc = "read"
    /\ call' = [call EXCEPT ![c] = [@ EXCEPT !.pc = "write",
                   !.existing = project[call[c].project].config]]
    /\ UNCHANGED <<workspace, project>>

\* { ...existing, ...dto }.  The DTO is an instance of a class compiled for
\* ES2023: a declared field that the request left out is an own property with
\* the value undefined, so it overwrites the existing one, and the JSON column
\* drops it.
Merged(existing, dto) ==
    [existing EXCEPT !.rateLimitPerMinute = dto.rateLimitPerMinute,
                     !.allowedDomains = dto.allowedDomains]

\* What the call makes of its project's row.
Changed(c, row) ==
    CASE call[c].kind = "rotate" -> [row EXCEPT !.apiKey = c]
      [] call[c].kind = "configure" ->
            [row EXCEPT !.config = Merged(call[c].existing, call[c].dto)]
      [] OTHER -> IF call[c].domain = None THEN row      \* not in the DTO
                  ELSE [row EXCEPT !.domain = call[c].domain]

WriteProject(c) ==
    /\ call[c].pc = "write"
    /\ project' = [project EXCEPT ![call[c].project] = Changed(c, @)]
    /\ EndCall(c, "done")
    /\ UNCHANGED workspace

\* A Prisma call fails, or the instance dies.
FailCall(c) ==
    /\ call[c].pc \in {"email", "slug", "insert", "own", "read", "write"}
    /\ EndCall(c, "failed")
    /\ UNCHANGED <<workspace, project>>

CallStep(c) ==
    \/ StartCall(c) \/ CheckEmail(c) \/ CheckSlug(c) \/ Insert(c) \/ LoseInsert(c)
    \/ AssertOwnership(c) \/ ReadConfig(c) \/ WriteProject(c) \/ FailCall(c)

AccountsNext == \E c \in Calls : CallStep(c)

AccountsSpec == AccountsInit /\ [][AccountsNext]_accountVars

-------------------------------------------------------------------------------
IsWorkspace(w) == workspace[w] # None
IsProject(p) == project[p] # None

\* Nobody shares a slug with another row of its scope, or an e-mail address.
NamesUnique ==
    /\ \A v, w \in Workspaces : IsWorkspace(v) /\ IsWorkspace(w) /\ v # w =>
          /\ SlugOf(workspace[v]) # SlugOf(workspace[w])
          /\ workspace[v].email # workspace[w].email
    /\ \A p, q \in Projects : IsProject(p) /\ IsProject(q) /\ p # q =>
          \/ project[p].workspace # project[q].workspace
          \/ SlugOf(project[p]) # SlugOf(project[q])

\* A suffix is there for a reason: every smaller one of the base is taken.
SuffixesNeeded ==
    /\ \A w \in Workspaces : IsWorkspace(w) =>
          \A n \in 0..(workspace[w].suffix - 1) :
             \E v \in Workspaces :
                IsWorkspace(v) /\ SlugOf(workspace[v]) = Slug(workspace[w].base, n)
    /\ \A p \in Projects : IsProject(p) =>
          \A n \in 0..(project[p].suffix - 1) :
             \E q \in Projects :
                /\ IsProject(q)
                /\ project[q].workspace = project[p].workspace
                /\ SlugOf(project[q]) = Slug(project[p].base, n)

\* Racing registrations and creations that found the same name free end with
\* distinct names, and with the smallest suffix that was not taken.
NamesAssigned == NamesUnique /\ SuffixesNeeded

\* Key k was generated for project p, by a call of p's own workspace.
IssuedFor(k, p) ==
    IF k \in Calls
    THEN \/ k = p
         \/ /\ call[k].kind = "rotate"
            /\ call[k].project = p
            /\ IsProject(p)
            /\ project[p].workspace = call[k].workspace
    ELSE p = Site

\* The key of a project is one that its own workspace generated for it, and
\* between the ownership check and the write a project does not change hands.
ProjectsApart ==
    /\ \A p \in Projects : IsProject(p) => IssuedFor(project[p].apiKey, p)
    /\ \A c \in Calls : call[c].pc \in {"read", "write"} =>
          /\ IsProject(call[c].project)
          /\ project[call[c].project].workspace = call[c].workspace

\* c is an update of the configuration, about to be written over the very
\* configuration it read: none overlapped with it.
Configuring(c) ==
    /\ call[c].pc = "write" /\ call[c].kind = "configure"
    /\ call[c].existing = project[call[c].project].config

\* "Atualiza (parcialmente) a configuracao" (tracker.controller.ts): a field
\* of the configuration changes only when an update names it.
OnlyNamedFieldsChange ==
    [][\A c \in Calls : Configuring(c) /\ call'[c].pc = "done" =>
          LET old == project[call[c].project].config
              new == project'[call[c].project].config
          IN  /\ \/ call[c].dto.rateLimitPerMinute # None
                 \/ new.rateLimitPerMinute = old.rateLimitPerMinute
              /\ \/ call[c].dto.allowedDomains # None
                 \/ new.allowedDomains = old.allowedDomains]_accountVars
===============================================================================
