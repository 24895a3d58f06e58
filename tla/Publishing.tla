----------------------------- MODULE Publishing -----------------------------
(***************************************************************************)
(* Publishing the builder projects of a creator                            *)
(* (services/dual_layer_service.py, services/registry_service.py): the     *)
(* seller agent, its account, the listing and the project's row are        *)
(* committed one after the other, and a request can end between them.      *)
(***************************************************************************)
EXTENDS Integers, Sequences, FiniteSets

CONSTANTS
  Projects, Publishes,  \* projects of one creator; calls of publish_builder_project
  MaxPublishes,         \* bound: calls that begin
  Nothing

VARIABLES
  agents,      \* the creator's seller agents, the oldest first: "bare" or with an "account"
  offers,      \* the projects' listings in the order of their commits
  projects,    \* published_listing_id of each project
  publishes,   \* where each call is, and the id of the agent or listing it has
  published,   \* how many calls have begun
  stranded,    \* whether a call ended between its agent and the agent's account
  final        \* the listings a project had when it was published and nobody at work on it

vars == <<agents, offers, projects, publishes, published, stranded, final>>

Idle == [pc |-> "idle", project |-> Nothing, id |-> Nothing]

Init ==
  /\ agents = <<>>
  /\ offers = <<>>
  /\ projects = [j \in Projects |-> Nothing]
  /\ publishes = [p \in Publishes |-> Idle]
  /\ published = 0
  /\ stranded = FALSE
  /\ final = [j \in Projects |-> Nothing]

Offers(j) == {i \in DOMAIN offers : offers[i].project = j}
Quiet(j) == \A p \in Publishes : publishes[p].project # j

Goes(p, pc, id) ==
  publishes' = [publishes EXCEPT ![p] = [pc |-> pc, project |-> publishes[p].project, id |-> id]]

\* A call ends, and with it maybe the work on its project.
Ends(p) ==
  /\ publishes' = [publishes EXCEPT ![p] = Idle]
  /\ final' = [j \in Projects |->
                 IF final[j] = Nothing /\ projects'[j] # Nothing /\ Quiet(j)' THEN Cardinality(Offers(j))
                 ELSE final[j]]
-----------------------------------------------------------------------------
\* A project that is published is answered with its listing.
Always(j) == TRUE                                                      \* mutant
Unpublished(j) == projects[j] = Nothing
Begin(p, j) ==
  /\ publishes[p] = Idle /\ published < MaxPublishes
  /\ published' = published + 1
  /\ publishes' = [publishes EXCEPT ![p] =
                     IF Unpublished(j) THEN [pc |-> "find", project |-> j, id |-> Nothing] ELSE Idle]
  /\ UNCHANGED <<agents, offers, projects, stranded, final>>

\* _get_or_create_creator_seller_agent: the oldest one, with or without an account.
Find(p) ==
  /\ publishes[p].pc = "find"
  /\ IF agents = <<>> THEN Goes(p, "register", Nothing) ELSE Goes(p, "list", 1)
  /\ UNCHANGED <<agents, offers, projects, published, stranded, final>>

Register(p) ==
  /\ publishes[p].pc = "register"
  /\ agents' = Append(agents, "bare")
  /\ Goes(p, "account", Len(agents'))
  /\ UNCHANGED <<offers, projects, published, stranded, final>>

CreateAccount(p) ==
  /\ publishes[p].pc = "account"
  /\ agents' = [agents EXCEPT ![publishes[p].id] = "account"]
  /\ Goes(p, "list", publishes[p].id)
  /\ UNCHANGED <<offers, projects, published, stranded, final>>

\* create_listing commits.
List(p) ==
  /\ publishes[p].pc = "list"
  /\ offers' = Append(offers, [project |-> publishes[p].project, seller |-> publishes[p].id])
  /\ Goes(p, "mark", Len(offers'))
  /\ UNCHANGED <<agents, projects, published, stranded, final>>

Mark(p) ==
  /\ publishes[p].pc = "mark"
  /\ projects' = [projects EXCEPT ![publishes[p].project] = publishes[p].id]
  /\ Ends(p)
  /\ UNCHANGED <<agents, offers, published, stranded>>

\* The configuration is refused, another error, or a crash.
Fail(p) ==
  /\ publishes[p] # Idle
  /\ stranded' = (stranded \/ publishes[p].pc = "account")
  /\ UNCHANGED projects
  /\ Ends(p)
  /\ UNCHANGED <<agents, offers, published>>

Next ==
  \E p \in Publishes :
    \/ \E j \in Projects : Begin(p, j)
    \/ Find(p) \/ Register(p) \/ CreateAccount(p) \/ List(p) \/ Mark(p) \/ Fail(p)

Spec == Init /\ [][Next]_vars
-----------------------------------------------------------------------------
TypeOK ==
  /\ agents \in Seq({"bare", "account"})
  /\ \A i \in DOMAIN offers : offers[i].project \in Projects /\ offers[i].seller \in DOMAIN agents
  /\ projects \in [Projects -> DOMAIN offers \cup {Nothing}]
  /\ published \in 0..MaxPublishes

\* Once a project is published and no call works on it, publishing it again lists nothing
\* more, and it refers to a listing of its own.  What is listed has a seller that can be
\* paid, unless a call ended before the account of the agent it had registered.
ListedForGood ==
  /\ \A j \in Projects :
       /\ final[j] # Nothing => Cardinality(Offers(j)) = final[j]
       /\ projects[j] # Nothing => projects[j] \in Offers(j)
  /\ \A i \in DOMAIN offers :
       \/ agents[offers[i].seller] = "account" \/ stranded
       \/ \E p \in Publishes : publishes[p].pc = "account"
=============================================================================
