------------------------- MODULE MCAccountsProjects -------------------------
(***************************************************************************)
(* Accounts and projects, which share no row that either changes for the   *)
(* other here, checked side by side: the part a behaviour starts in is the *)
(* one that moves.                                                         *)
(***************************************************************************)
EXTENDS Accounts, Projects, TLC

VARIABLE part

\* The part at rest starts in one state.
MCInit ==
  /\ part \in {"accounts", "projects"} /\ Init /\ ProjectsInit
  /\ part = "accounts" => lastProject = 0 /\ projectMenu = CHOOSE m \in ProjectMenus : TRUE
  /\ part = "projects" => menu = CHOOSE m \in Menus : TRUE

MCNext ==
  /\ UNCHANGED part
  /\ \/ part = "accounts" /\ Next /\ UNCHANGED projectsVars
     \/ part = "projects" /\ ProjectsNext /\ UNCHANGED vars

MCSpec == MCInit /\ [][MCNext]_<<part, vars, projectsVars>>

\* Single sign-on and deletion; administrators; passwords and links, with and without
\* verification; what becomes of templates.
MCMenus ==
  [ops : {{"register", "login", "sso", "remove"}, {"register", "login", "role", "remove"},
          {"register", "login", "forgot", "reset"}, {"register", "template"}},
   verification : {FALSE}]
  \cup
  [ops : {{"register", "login", "change", "forgot", "reset"},
          {"register", "login", "resend", "verify"}},
   verification : {TRUE}]

\* Quotas; a publication and changes of the files; a template used; imports; assets;
\* versions restored among them.
MCProjectMenus ==
  {[ops |-> {"create", "trash"},                        projects |-> 3],
   [ops |-> {"duplicate", "trash"},                     projects |-> 3],
   [ops |-> {"create", "duplicate"},                    projects |-> 3],
   [ops |-> {"publish", "delete", "rename"},            projects |-> 2],
   [ops |-> {"publish", "file"},                        projects |-> 2],
   [ops |-> {"publish", "use"},                         projects |-> 3],
   [ops |-> {"import"},                                 projects |-> 2],
   [ops |-> {"upload", "delete", "rename", "trash"},    projects |-> 2],
   [ops |-> {"version", "delete", "rename"},            projects |-> 1]}
MCZips == {{}, {[id |-> 0, path |-> "other", asset |-> FALSE]},
           {[id |-> 0, path |-> "main", asset |-> FALSE], [id |-> 0, path |-> "other", asset |-> TRUE]}}
MCManifests == {{[id |-> 0, path |-> "main", asset |-> FALSE]},
                {[id |-> 0, path |-> "other", asset |-> FALSE], [id |-> 0, path |-> "main", asset |-> TRUE]}}

MCSymmetry == Permutations(Emails) \cup Permutations(Requests)

\* The rows of accounts and of projects have their types, belong to rows that exist, and no
\* project has two files of one path (migrations/0001_init.sql).
RowsTyped == TypeOK /\ ProjectsTypeOK
=============================================================================
