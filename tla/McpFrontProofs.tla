---------------------------- MODULE McpFrontProofs ----------------------------
(***************************************************************************)
(* What a request may rely on while 1C changes the allow-list and the      *)
(* registry, for any number of requests, clients, entries and changes.     *)
(***************************************************************************)
EXTENDS McpFront, FiniteSetTheorems, TLAPS

USE DEF serverVars, ownerVars, reqVars, callVars, windowVars, listVars

-----------------------------------------------------------------------------
(* Announcements.                                                          *)

\* A client that has read the list is one of client_sinks; one whose copy is old
\* is among those that a running announcement has yet to tell.
Told ==
    /\ known # "nothing" => watched[1] \in sinks
    /\ known = "stale" /\ calling # "none" /\ calling = Announced(watched[2]) => watched[1] \in rest
    /\ ListIsCurrent

LEMMA ReplaceTold ==
    ASSUME Told, NEW k, NEW g, Replace(k, g)
    PROVE  Told'
  BY DEF Told, ListIsCurrent, Replace, OwnerCall

LEMMA ToldStep == Told /\ [Next]_vars => Told'
<1> SUFFICES ASSUME Told, [Next]_vars PROVE Told'
  OBVIOUS
<1>1. UNCHANGED <<sinks, callVars, listVars>> => Told'
  BY DEF Told, ListIsCurrent
<1>2. ASSUME NEW r \in Requests, NEW c \in Clients, NEW q \in Asks, Arrive(r, c, q)
      PROVE  Told'
  BY <1>1, <1>2 DEF Arrive
<1>3. ASSUME NEW r \in Requests, Intercept(r) \/ Forbid(r) \/ Admit(r) \/ Initialize(r)
      PROVE  Told'
  BY <1>1, <1>3 DEF Intercept, Forbid, Admit, Initialize
<1>4. ASSUME NEW r \in Requests, AddSink(r)
      PROVE  Told'
  BY <1>4 DEF AddSink, Told, ListIsCurrent
<1>5. ASSUME NEW r \in Requests, List(r)
      PROVE  Told'
  <2>1. UNCHANGED <<sinks, callVars, watched, changed>>
    BY <1>5 DEF List
  <2>2. \/ known' = known
        \/ known' = "fresh" /\ watched[1] \in sinks
        \/ known' = "nothing"
    BY <1>5 DEF List
  <2>3. QED
    BY <2>1, <2>2 DEF Told, ListIsCurrent
<1>6. ASSUME NEW r \in Requests, LookUp(r) \/ Emit(r) \/ Leave(r)
      PROVE  Told'
  BY <1>1, <1>6 DEF LookUp, Emit, Leave
<1>7. ASSUME NEW raw \in RawLists, SetAllowedOrigins(raw)
      PROVE  Told'
  BY <1>1, <1>7 DEF SetAllowedOrigins, OwnerCall
<1>8. ASSUME NEW k \in Kinds, NEW batch \in Batches(k), Register(k, batch)
      PROVE  Told'
  BY <1>8, ReplaceTold DEF Register
<1>9. ASSUME NEW k \in Kinds, NEW i \in Of(k), Unregister(k, i)
      PROVE  Told'
  BY <1>9, ReplaceTold DEF Unregister
<1>10. ASSUME NEW k \in Kinds, Clear(k)
       PROVE  Told'
  BY <1>10, ReplaceTold DEF Clear
<1>11. ASSUME NEW k \in Kinds, BeginNotify(k)
       PROVE  Told'
  BY <1>11 DEF BeginNotify, Told, ListIsCurrent
<1>12. CASE SendNext
  BY <1>12 DEF SendNext, Told, ListIsCurrent
<1>13. CASE EndNotify
  BY <1>13 DEF EndNotify, Told, ListIsCurrent
<1>14. CASE UNCHANGED vars
  BY <1>1, <1>14 DEF vars
<1>15. QED
  BY <1>2, <1>3, <1>4, <1>5, <1>6, <1>7, <1>8, <1>9, <1>10, <1>11, <1>12, <1>13, <1>14 DEF Next

\* A client knows of every change, has been told to read again, or has an
\* announcement coming, for any number of clients, lists and changes.
THEOREM ListsAreCurrent == Spec => []ListIsCurrent
<1>1. Init => Told
  BY DEF Init, Told, ListIsCurrent
<1>2. Told => ListIsCurrent
  BY DEF Told
<1>3. QED
  BY <1>1, <1>2, ToldStep, PTL DEF Spec

-----------------------------------------------------------------------------
(* What the registry says.                                                 *)

Stages == {"idle", "arrived", "handler", "emit", "done"}
EntryWords == {"none", "present", "forbidden", "optional", "required"}
Events == {"call", "task", "prompt", "resource"} \cup Templates
Misses == {"not_found", "wrong_mode", "ambiguous"}
\* Outcomes for which the registry is not asked.
Plain == {"accepted", "bad_request", "forbidden", "no_content", "ok", "refused"}

\* Entries are of their kind.
Registered(g) ==
    /\ g \in [Items -> EntryWords]
    /\ \A i \in Tools : g[i] \in {"none", "forbidden", "optional", "required"}
    /\ \A i \in Prompts \cup Resources \cup Templates : g[i] \in {"none", "present"}

LEMMA ItemsAre == Items = Tools \cup Prompts \cup Resources \cup Templates
<1>1. /\ Of("tool") = Tools /\ Of("prompt") = Prompts
      /\ Of("resource") = Resources /\ Of("template") = Templates
  BY DEF Of
<1>2. \A k \in Kinds : k \in {"tool", "prompt", "resource", "template"}
  BY DEF Kinds
<1>3. \A i \in Items : i \in Tools \cup Prompts \cup Resources \cup Templates
  BY <1>1, <1>2 DEF Items
<1>4. \A k \in {"tool", "prompt", "resource", "template"} : \A i \in Of(k) : i \in Items
  BY DEF Items, Kinds
<1>5. QED
  BY <1>1, <1>3, <1>4

\* An outcome the registry has no say in is always warranted.
LEMMA PlainWarranted ==
    ASSUME NEW g, NEW how \in Plain, NEW i
    PROVE  Warrants(g, how, i)
  BY ConstantsAssumption DEF ConstantsAssumption, Plain, Warrants

\* Resolve answers as the registry warrants.
LEMMA ResolveWarranted ==
    ASSUME Registered(catalog), NEW u \in Resources
    PROVE  /\ Resolve(u) \in Events \cup Misses
           /\ Warrants(catalog, Resolve(u), u)
<1> DEFINE there == {m \in Templates : catalog[m] # "none"}
<1>1. IsFiniteSet(there) /\ Cardinality(there) \in Nat
  BY ConstantsAssumption, FS_Subset, FS_CardinalityType DEF ConstantsAssumption
<1>2. there # {} => Cardinality(there) # 0
  BY <1>1, FS_EmptySet
<1>3. Cardinality(there) = 1 => \E m : there = {m}
  BY <1>1, FS_Singleton
<1>4. CASE catalog[u] # "none"
  <2>1. Resolve(u) = "resource" /\ catalog[u] = "present"
    BY <1>4 DEF Resolve, Registered
  <2>2. QED
    BY <2>1, ConstantsAssumption DEF ConstantsAssumption, Warrants, Events
<1>5. CASE catalog[u] = "none" /\ there = {}
  <2>1. Resolve(u) = "not_found"
    BY <1>5 DEF Resolve
  <2>2. QED
    BY <1>5, <2>1, ConstantsAssumption DEF ConstantsAssumption, Warrants, Misses
<1>6. CASE catalog[u] = "none" /\ Cardinality(there) = 1
  <2>1. PICK m : there = {m}
    BY <1>3, <1>6
  <2>2. (CHOOSE n \in there : TRUE) = m
    BY <2>1
  <2>3. Resolve(u) = m
    BY <1>6, <2>1, <2>2 DEF Resolve
  <2>4. m \in Templates
    BY <2>1
  <2>5. QED
    BY <1>6, <2>1, <2>3, <2>4, ConstantsAssumption DEF ConstantsAssumption, Warrants, Events
<1>7. CASE catalog[u] = "none" /\ there # {} /\ Cardinality(there) # 1
  <2>1. Resolve(u) = "ambiguous"
    BY <1>7 DEF Resolve
  <2>2. Cardinality(there) > 1
    BY <1>1, <1>2, <1>7
  <2>3. QED
    BY <1>7, <2>1, <2>2, ConstantsAssumption DEF ConstantsAssumption, Warrants, Misses
<1> HIDE DEF there
<1>8. QED
  BY <1>4, <1>5, <1>6, <1>7

\* So does every handler, for what a client may ask of it.
LEMMA FindWarranted ==
    ASSUME Registered(catalog), NEW kind, NEW i,
           \/ kind \in {"call", "task"} /\ i \in Tools
           \/ kind = "prompt" /\ i \in Prompts
           \/ kind = "read" /\ i \in Resources
    PROVE  /\ Find(kind, i) \in Events \cup Misses
           /\ Warrants(catalog, Find(kind, i), i)
<1>1. CASE kind = "read"
  BY <1>1, ResolveWarranted DEF Find
<1>2. CASE kind # "read" /\ catalog[i] = "none"
  <2>1. Find(kind, i) = "not_found" /\ i \notin Resources
    BY <1>2, ConstantsAssumption DEF ConstantsAssumption, Find
  <2>2. QED
    BY <1>2, <2>1, ConstantsAssumption DEF ConstantsAssumption, Warrants, Misses
<1>3. CASE kind = "call" /\ catalog[i] # "none"
  <2>1. catalog[i] \in {"forbidden", "optional", "required"}
    BY <1>3 DEF Registered
  <2>2. Find(kind, i) = IF catalog[i] = "required" THEN "wrong_mode" ELSE "call"
    BY <1>3 DEF Find
  <2>3. QED
    BY <2>1, <2>2, ConstantsAssumption DEF ConstantsAssumption, Warrants, Misses, Events
<1>4. CASE kind = "task" /\ catalog[i] # "none"
  <2>1. catalog[i] \in {"forbidden", "optional", "required"}
    BY <1>4 DEF Registered
  <2>2. Find(kind, i) = IF catalog[i] = "forbidden" THEN "wrong_mode" ELSE "task"
    BY <1>4 DEF Find
  <2>3. QED
    BY <2>1, <2>2, ConstantsAssumption DEF ConstantsAssumption, Warrants, Misses, Events
<1>5. CASE kind = "prompt" /\ catalog[i] # "none"
  <2>1. catalog[i] = "present" /\ Find(kind, i) = "prompt"
    BY <1>5 DEF Registered, Find
  <2>2. QED
    BY <2>1, ConstantsAssumption DEF ConstantsAssumption, Warrants, Events
<1>6. QED
  BY <1>1, <1>2, <1>3, <1>4, <1>5

-----------------------------------------------------------------------------
(* Requests.                                                               *)

AllowLists == [any : BOOLEAN, named : SUBSET Clients]
Reqs == {<<>>} \cup {<<c, q[1], q[2]>> : c \in Clients, q \in Asks}

Typed ==
    /\ allow \in AllowLists
    /\ Registered(catalog)
    /\ pc \in [Requests -> Stages]
    /\ req \in [Requests -> Reqs]
    /\ cors \in [Requests -> {"absent", "*", "origin"}]
    /\ plan \in [Requests -> Events \cup {"none"}]
    /\ answer \in [Requests -> Events \cup Misses \cup Plain \cup {"none"}]
    /\ lists \in [Requests -> SUBSET AllowLists]
    /\ seen \in [Requests -> SUBSET [Items -> EntryWords]]

\* A request under way is one that clients make, and its window holds what is in
\* force now; a plan, like an answer, was warranted in its window.
RequestOf(r) ==
    /\ pc[r] = "idle" => cors[r] = "absent" /\ answer[r] = "none"
    /\ pc[r] # "idle" => <<req[r][2], req[r][3]>> \in Asks
    /\ Running(r) => allow \in lists[r] /\ catalog \in seen[r]
    /\ cors[r] # "absent" =>
          \E list \in lists[r] : Allows(list, req[r][1]) /\ cors[r] = CorsOf(list, req[r][1])
    /\ answer[r] = "forbidden" => \E list \in lists[r] : ~Allows(list, req[r][1])
    /\ pc[r] = "emit" => /\ plan[r] \in Events
                         /\ \E g \in seen[r] : Warrants(g, plan[r], req[r][3])
    /\ pc[r] = "done" => \E g \in seen[r] : Warrants(g, answer[r], req[r][3])
Served == \A r \in Requests : RequestOf(r)

IInv == Typed /\ Served

LEMMA ParseTyped == ASSUME NEW raw \in RawLists PROVE ParseAllowList(raw) \in AllowLists
<1>1. CASE raw = EmptyText
  <2>1. Local \subseteq Clients
    BY ConstantsAssumption DEF ConstantsAssumption
  <2>2. QED
    BY <1>1, <2>1 DEF ParseAllowList, DefaultLocal, AllowLists
<1>2. CASE raw # EmptyText
  <2>1. raw \in SUBSET ((Clients \ Headless) \cup {"*", "blank"})
    BY <1>2 DEF RawLists
  <2>2. (IF "*" \in raw THEN {} ELSE raw \ {"blank"}) \subseteq Clients
    BY <2>1
  <2>3. QED
    BY <1>2, <2>2 DEF ParseAllowList, AllowLists
<1>3. QED
  BY <1>1, <1>2

\* What 1C writes into the registry is of its kind.
LEMMA ReplaceTyped ==
    ASSUME Typed, NEW k \in Kinds, NEW g, Replace(k, g), DOMAIN g \subseteq Of(k),
           \A i \in DOMAIN g : g[i] \in Entries(k) \cup {"none"}
    PROVE  Registered(catalog)'
<1>1. catalog' = [i \in Items |-> IF i \in DOMAIN g THEN g[i] ELSE catalog[i]]
  BY DEF Replace
<1>2. k \in {"tool", "prompt", "resource", "template"}
  BY DEF Kinds
<1>3. /\ k = "tool" => DOMAIN g \subseteq Tools
      /\ k = "prompt" => DOMAIN g \subseteq Prompts
      /\ k = "resource" => DOMAIN g \subseteq Resources
      /\ k = "template" => DOMAIN g \subseteq Templates
  BY DEF Of
<1>4. \A i \in DOMAIN g : g[i] \in (IF k = "tool" THEN {"none", "forbidden", "optional", "required"}
                                   ELSE {"none", "present"})
  BY DEF Entries
<1>5. Registered(catalog)
  BY DEF Typed
<1>6. catalog' \in [Items -> EntryWords]
  BY <1>1, <1>4, <1>5 DEF Registered, EntryWords
<1>7. ASSUME NEW i \in Tools
      PROVE  catalog'[i] \in {"none", "forbidden", "optional", "required"}
  <2>1. i \in Items /\ (i \in DOMAIN g => k = "tool")
    BY <1>2, <1>3, ItemsAre, ConstantsAssumption DEF ConstantsAssumption
  <2>2. QED
    BY <1>1, <1>4, <1>5, <2>1 DEF Registered
<1>8. ASSUME NEW i \in Prompts \cup Resources \cup Templates
      PROVE  catalog'[i] \in {"none", "present"}
  <2>1. i \in Items /\ (i \in DOMAIN g => k # "tool")
    BY <1>2, <1>3, ItemsAre, ConstantsAssumption DEF ConstantsAssumption
  <2>2. QED
    BY <1>1, <1>4, <1>5, <2>1 DEF Registered
<1>9. QED
  BY <1>6, <1>7, <1>8 DEF Registered

\* The three ways in which 1C changes the registry.
Rewrite ==
    \E k \in Kinds : \E g :
        /\ Replace(k, g)
        /\ DOMAIN g \subseteq Of(k)
        /\ \A i \in DOMAIN g : g[i] \in Entries(k) \cup {"none"}

LEMMA Rewrites ==
    ASSUME NEW k \in Kinds,
           \/ \E batch \in Batches(k) : Register(k, batch)
           \/ \E i \in Of(k) : Unregister(k, i)
           \/ Clear(k)
    PROVE  Rewrite
<1>1. ASSUME NEW batch \in Batches(k), Register(k, batch)
      PROVE  Rewrite
  <2>1. PICK S \in SUBSET Of(k) : batch \in [S -> Entries(k)]
    BY DEF Batches
  <2>2. DOMAIN batch \subseteq Of(k) /\ \A i \in DOMAIN batch : batch[i] \in Entries(k) \cup {"none"}
    BY <2>1
  <2>3. QED
    BY <1>1, <2>2 DEF Register, Rewrite
<1>2. ASSUME NEW i \in Of(k), Unregister(k, i)
      PROVE  Rewrite
  <2> DEFINE g == [x \in {i} |-> "none"]
  <2>1. DOMAIN g \subseteq Of(k) /\ \A x \in DOMAIN g : g[x] \in Entries(k) \cup {"none"}
    OBVIOUS
  <2>2. Replace(k, g)
    BY <1>2 DEF Unregister
  <2> HIDE DEF g
  <2>3. QED
    BY <2>1, <2>2 DEF Rewrite
<1>3. CASE Clear(k)
  <2> DEFINE g == [i \in Of(k) |-> "none"]
  <2>1. DOMAIN g \subseteq Of(k) /\ \A x \in DOMAIN g : g[x] \in Entries(k) \cup {"none"}
    OBVIOUS
  <2>2. Replace(k, g)
    BY <1>3 DEF Clear
  <2> HIDE DEF g
  <2>3. QED
    BY <2>1, <2>2 DEF Rewrite
<1>4. QED
  BY <1>1, <1>2, <1>3

\* What LookUp finds is warranted by the registry it looks in.
LEMMA LookUpWarranted ==
    ASSUME IInv, NEW r \in Requests, LookUp(r)
    PROVE  /\ Find(req[r][2], req[r][3]) \in Events \cup Misses
           /\ Warrants(catalog, Find(req[r][2], req[r][3]), req[r][3])
<1>1. /\ req[r][2] \in {"call", "task", "prompt", "read"}
      /\ pc[r] = "handler"
  BY DEF LookUp, Handle
<1>2. <<req[r][2], req[r][3]>> \in Asks
  BY <1>1 DEF IInv, Served, RequestOf
<1>3. \/ req[r][2] \in {"call", "task"} /\ req[r][3] \in Tools
      \/ req[r][2] = "prompt" /\ req[r][3] \in Prompts
      \/ req[r][2] = "read" /\ req[r][3] \in Resources
  BY <1>1, <1>2 DEF Asks, Unsessioned
<1>4. Registered(catalog)
  BY DEF IInv, Typed
<1>5. QED
  BY <1>3, <1>4, FindWarranted

LEMMA TypedStep == IInv /\ [Next]_vars => Typed'
<1> SUFFICES ASSUME IInv, [Next]_vars PROVE Typed'
  OBVIOUS
<1>1. Typed /\ Served
  BY DEF IInv
<1>2. catalog \in [Items -> EntryWords]
  BY <1>1 DEF Typed, Registered
<1>3. UNCHANGED catalog => Registered(catalog)'
  BY <1>1 DEF Typed, Registered
<1> USE <1>1 DEF Stages
<1>4. ASSUME NEW r \in Requests, NEW c \in Clients, NEW q \in Asks, Arrive(r, c, q)
      PROVE  Typed'
  <2>1. <<c, q[1], q[2]>> \in Reqs
    BY DEF Reqs
  <2>2. req' \in [Requests -> Reqs]
    BY <1>4, <2>1 DEF Typed, Arrive
  <2>3. /\ lists' \in [Requests -> SUBSET AllowLists]
        /\ seen' \in [Requests -> SUBSET [Items -> EntryWords]]
    BY <1>2, <1>4 DEF Typed, Arrive
  <2>4. pc' \in [Requests -> Stages]
    BY <1>4 DEF Typed, Arrive
  <2>5. UNCHANGED <<allow, catalog, cors, plan, answer>>
    BY <1>4 DEF Arrive
  <2>6. QED
    BY <1>3, <2>2, <2>3, <2>4, <2>5 DEF Typed
<1>5. ASSUME NEW r \in Requests, NEW how \in Misses \cup Plain \cup Events, Done(r, how),
             UNCHANGED <<ownerVars, req, windowVars>>,
             cors' \in [Requests -> {"absent", "*", "origin"}]
      PROVE  Typed'
  BY <1>3, <1>5 DEF Typed, Done
<1>6. ASSUME NEW r \in Requests, Intercept(r) \/ Forbid(r) \/ Initialize(r) \/ AddSink(r) \/ List(r)
      PROVE  Typed'
  <2>1. /\ \E how \in Plain : Done(r, how)
        /\ UNCHANGED <<ownerVars, req, windowVars, cors>>
    BY <1>6 DEF Intercept, Forbid, Initialize, AddSink, List, Plain
  <2>2. cors' \in [Requests -> {"absent", "*", "origin"}]
    BY <2>1 DEF Typed
  <2>3. QED
    BY <1>5, <2>1, <2>2
<1>7. ASSUME NEW r \in Requests, Admit(r)
      PROVE  Typed'
  <2>1. cors' \in [Requests -> {"absent", "*", "origin"}]
    BY <1>7 DEF Typed, Admit, CorsOf
  <2>2. UNCHANGED <<ownerVars, req, windowVars>>
    BY <1>7 DEF Admit
  <2>3. CASE Done(r, "no_content")
    BY <1>5, <2>1, <2>2, <2>3 DEF Plain
  <2>4. CASE pc' = [pc EXCEPT ![r] = "handler"] /\ UNCHANGED <<plan, answer>>
    BY <1>3, <2>1, <2>2, <2>4 DEF Typed
  <2>5. QED
    BY <1>7, <2>3, <2>4 DEF Admit
<1>8. ASSUME NEW r \in Requests, LookUp(r)
      PROVE  Typed'
  <2> DEFINE found == Find(req[r][2], req[r][3])
  <2>1. UNCHANGED <<ownerVars, req, windowVars, cors>>
    BY <1>8 DEF LookUp
  <2>2. CASE found \in Misses /\ Done(r, found)
    <3>1. cors' \in [Requests -> {"absent", "*", "origin"}]
      BY <2>1 DEF Typed
    <3>2. PICK how \in Misses : Done(r, how)
      BY <2>2
    <3>3. QED
      BY <1>5, <2>1, <3>1, <3>2
  <2>3. CASE /\ found \notin Misses
             /\ pc' = [pc EXCEPT ![r] = "emit"] /\ plan' = [plan EXCEPT ![r] = found]
             /\ UNCHANGED answer
    <3>1. found \in Events
      BY <1>8, <2>3, LookUpWarranted
    <3>2. QED
      BY <1>3, <2>1, <2>3, <3>1 DEF Typed
  <2>4. QED
    BY <1>8, <2>2, <2>3 DEF LookUp, Misses
<1>9. ASSUME NEW r \in Requests, Emit(r)
      PROVE  Typed'
  <2>1. plan[r] \in Events /\ UNCHANGED <<ownerVars, req, windowVars, cors>>
    BY <1>9 DEF Emit, Served, RequestOf
  <2>2. PICK how \in Events \cup Plain : Done(r, how)
    BY <1>9, <2>1 DEF Emit, Plain
  <2>3. cors' \in [Requests -> {"absent", "*", "origin"}]
    BY <2>1 DEF Typed
  <2>4. QED
    BY <1>5, <2>1, <2>2, <2>3
<1>10. ASSUME NEW r \in Requests, Leave(r)
       PROVE  Typed'
  BY <1>3, <1>10 DEF Typed, Leave, Reqs
<1>11. ASSUME NEW raw \in RawLists, SetAllowedOrigins(raw)
       PROVE  Typed'
  <2>1. allow' \in AllowLists
    BY <1>11, ParseTyped DEF SetAllowedOrigins
  <2>2. lists' \in [Requests -> SUBSET AllowLists]
    BY <1>11, <2>1 DEF Typed, SetAllowedOrigins
  <2>3. UNCHANGED <<catalog, seen, reqVars>>
    BY <1>11 DEF SetAllowedOrigins, OwnerCall
  <2>4. QED
    BY <1>3, <2>1, <2>2, <2>3 DEF Typed
<1>12. CASE Rewrite
  <2>0. PICK k \in Kinds : \E g :
            /\ Replace(k, g)
            /\ DOMAIN g \subseteq Of(k)
            /\ \A i \in DOMAIN g : g[i] \in Entries(k) \cup {"none"}
    BY <1>12 DEF Rewrite
  <2>1. PICK g :
            /\ Replace(k, g)
            /\ DOMAIN g \subseteq Of(k)
            /\ \A i \in DOMAIN g : g[i] \in Entries(k) \cup {"none"}
    BY <2>0
  <2>2. Registered(catalog)'
    BY <2>1, ReplaceTyped
  <2>3. seen' \in [Requests -> SUBSET [Items -> EntryWords]]
    BY <2>1, <2>2 DEF Typed, Replace, Registered
  <2>4. UNCHANGED <<allow, lists, reqVars>>
    BY <2>1 DEF Replace, OwnerCall
  <2>5. QED
    BY <2>2, <2>3, <2>4 DEF Typed
<1>13. ASSUME UNCHANGED <<allow, catalog, reqVars, windowVars>>
       PROVE  Typed'
  BY <1>3, <1>13 DEF Typed
<1>14. CASE SendNext \/ EndNotify \/ \E k \in Kinds : BeginNotify(k)
  BY <1>13, <1>14 DEF SendNext, EndNotify, BeginNotify
<1>15. CASE UNCHANGED vars
  BY <1>13, <1>15 DEF vars
<1>16. QED
  BY <1>4, <1>6, <1>7, <1>8, <1>9, <1>10, <1>11, <1>12, <1>14, <1>15, Rewrites DEF Next

\* A request is served by what was in force while it ran.
LEMMA ServedStep == IInv /\ [Next]_vars => Served'
<1> SUFFICES ASSUME IInv, [Next]_vars, NEW q \in Requests PROVE RequestOf(q)'
  BY DEF Served
<1>1. RequestOf(q) /\ Typed
  BY DEF IInv, Served
<1>2. /\ pc \in [Requests -> Stages] /\ req \in [Requests -> Reqs]
      /\ cors \in [Requests -> {"absent", "*", "origin"}]
      /\ plan \in [Requests -> Events \cup {"none"}]
      /\ answer \in [Requests -> Events \cup Misses \cup Plain \cup {"none"}]
      /\ lists \in [Requests -> SUBSET AllowLists]
      /\ seen \in [Requests -> SUBSET [Items -> EntryWords]]
  BY <1>1 DEF Typed
<1>3. \A how \in Plain : \A g, i : Warrants(g, how, i)
  BY PlainWarranted
<1> DEFINE Same == /\ pc'[q] = pc[q] /\ req'[q] = req[q] /\ cors'[q] = cors[q] /\ plan'[q] = plan[q]
                   /\ answer'[q] = answer[q] /\ lists'[q] = lists[q] /\ seen'[q] = seen[q]
                   /\ UNCHANGED <<allow, catalog>>
<1>4. Same => RequestOf(q)'
  BY <1>1 DEF RequestOf, Running
<1>5. ASSUME NEW r \in Requests, q # r,
             Intercept(r) \/ Forbid(r) \/ Admit(r) \/ Initialize(r) \/ AddSink(r)
      PROVE  Same
  BY <1>2, <1>5 DEF Intercept, Forbid, Admit, Initialize, AddSink, Done
<1>6. ASSUME NEW r \in Requests, q # r, List(r) \/ LookUp(r) \/ Emit(r) \/ Leave(r)
      PROVE  Same
  BY <1>2, <1>6 DEF List, LookUp, Emit, Leave, Done
<1>7. ASSUME NEW r \in Requests, NEW c \in Clients, NEW a \in Asks, Arrive(r, c, a)
      PROVE  RequestOf(q)'
  <2>1. CASE q # r
    <3>1. Same
      BY <1>2, <1>7, <2>1 DEF Arrive
    <3>2. QED
      BY <1>4, <3>1
  <2>2. CASE q = r
    <3>1. /\ pc'[q] = "arrived" /\ req'[q] = <<c, a[1], a[2]>>
          /\ lists'[q] = {allow} /\ seen'[q] = {catalog}
          /\ cors'[q] = "absent" /\ answer'[q] = "none"
          /\ UNCHANGED <<allow, catalog>>
      BY <1>1, <1>2, <1>7, <2>2 DEF Arrive, RequestOf
    <3>2. <<a[1], a[2]>> \in Asks
      BY DEF Asks
    <3>3. QED
      BY <3>1, <3>2 DEF RequestOf, Running
  <2>3. QED
    BY <2>1, <2>2
\* Done, for a reason that the window has.
<1>8. ASSUME Running(q), pc'[q] = "done", UNCHANGED <<req, windowVars>>,
             answer'[q] = "forbidden" => ~Allows(allow, req[q][1]),
             \/ cors'[q] = cors[q]
             \/ Allows(allow, req[q][1]) /\ cors'[q] = CorsOf(allow, req[q][1]),
             \E g \in seen[q] : Warrants(g, answer'[q], req[q][3])
      PROVE  RequestOf(q)'
  BY <1>1, <1>8 DEF RequestOf, Running
<1>9. ASSUME NEW r \in Requests, q = r,
             Intercept(r) \/ Forbid(r) \/ Initialize(r) \/ AddSink(r) \/ List(r)
      PROVE  RequestOf(q)'
  <2>1. /\ pc[q] \in {"arrived", "handler"} /\ pc'[q] = "done" /\ answer'[q] \in Plain
        /\ answer'[q] = "forbidden" => ~Allows(allow, req[q][1])
        /\ cors'[q] = cors[q] /\ UNCHANGED <<req, windowVars>>
    BY <1>2, <1>9 DEF Intercept, Forbid, Initialize, AddSink, List, Done, Handle, Filtered, Plain
  <2>2. Running(q) /\ catalog \in seen[q]
    BY <1>1, <2>1 DEF RequestOf, Running
  <2>3. Warrants(catalog, answer'[q], req[q][3])
    BY <1>3, <2>1
  <2>4. QED
    BY <1>8, <2>1, <2>2, <2>3
<1>10. ASSUME NEW r \in Requests, q = r, Admit(r)
       PROVE  RequestOf(q)'
  <2>1. /\ pc[q] = "arrived" /\ Allows(allow, req[q][1])
        /\ cors'[q] = CorsOf(allow, req[q][1]) /\ UNCHANGED <<req, windowVars, allow, catalog>>
    BY <1>2, <1>10 DEF Admit, Filtered
  <2>2. Running(q) /\ catalog \in seen[q] /\ allow \in lists[q]
    BY <1>1, <2>1 DEF RequestOf, Running
  <2>3. CASE Done(r, "no_content")
    <3>1. pc'[q] = "done" /\ answer'[q] = "no_content"
      BY <1>2, <1>10, <2>3 DEF Done
    <3>2. Warrants(catalog, answer'[q], req[q][3])
      BY <1>3, <3>1 DEF Plain
    <3>3. QED
      BY <1>8, <2>1, <2>2, <3>1, <3>2
  <2>4. CASE pc' = [pc EXCEPT ![r] = "handler"] /\ UNCHANGED answer
    <3>1. pc'[q] = "handler" /\ answer'[q] = answer[q]
      BY <1>2, <1>10, <2>4
    <3>2. QED
      BY <1>1, <2>1, <2>2, <3>1 DEF RequestOf, Running
  <2>5. QED
    BY <1>10, <2>3, <2>4 DEF Admit
<1>11. ASSUME NEW r \in Requests, q = r, LookUp(r)
       PROVE  RequestOf(q)'
  <2> DEFINE found == Find(req[q][2], req[q][3])
  <2>1. pc[q] = "handler" /\ UNCHANGED <<req, windowVars, cors, allow, catalog>>
    BY <1>11 DEF LookUp, Handle
  <2>2. found \in Events \cup Misses /\ Warrants(catalog, found, req[q][3])
    BY <1>11, LookUpWarranted
  <2>3. Running(q) /\ catalog \in seen[q] /\ allow \in lists[q]
    BY <1>1, <2>1 DEF RequestOf, Running
  <2>4. CASE found \in Misses /\ Done(r, found)
    <3>1. pc'[q] = "done" /\ answer'[q] = found /\ found # "forbidden"
      BY <1>2, <1>11, <2>4 DEF Done, Misses
    <3> HIDE DEF found
    <3>2. QED
      BY <1>8, <2>1, <2>2, <2>3, <3>1
  <2>5. CASE /\ found \notin Misses
             /\ pc' = [pc EXCEPT ![r] = "emit"] /\ plan' = [plan EXCEPT ![r] = found]
             /\ UNCHANGED answer
    <3>1. pc'[q] = "emit" /\ plan'[q] = found /\ found \in Events /\ answer'[q] = answer[q]
      BY <1>2, <1>11, <2>2, <2>5
    <3> HIDE DEF found
    <3>2. \E g \in seen'[q] : Warrants(g, plan'[q], req'[q][3])
      BY <2>1, <2>2, <2>3, <3>1
    <3>3. QED
      BY <1>1, <2>1, <2>3, <3>1, <3>2 DEF RequestOf, Running
  <2>6. QED
    BY <1>11, <2>4, <2>5 DEF LookUp, Misses
<1>12. ASSUME NEW r \in Requests, q = r, Emit(r)
       PROVE  RequestOf(q)'
  <2>1. pc[q] = "emit" /\ UNCHANGED <<req, windowVars, cors>>
    BY <1>12 DEF Emit
  <2>2. /\ plan[q] \in Events /\ catalog \in seen[q]
        /\ \E g \in seen[q] : Warrants(g, plan[q], req[q][3])
    BY <1>1, <2>1 DEF RequestOf, Running
  <2>3. pc'[q] = "done" /\ answer'[q] \in {plan[q], "refused"}
    BY <1>2, <1>12 DEF Emit, Done
  <2>4. Warrants(catalog, "refused", req[q][3])
    BY <1>3 DEF Plain
  <2>5. answer'[q] # "forbidden"
    BY <2>2, <2>3, ConstantsAssumption DEF ConstantsAssumption, Events
  <2>6. \E g \in seen[q] : Warrants(g, answer'[q], req[q][3])
    BY <2>2, <2>3, <2>4
  <2>7. QED
    BY <1>8, <2>1, <2>5, <2>6, <2>3 DEF Running
<1>13. ASSUME NEW r \in Requests, q = r, Leave(r)
       PROVE  RequestOf(q)'
  BY <1>2, <1>13 DEF Leave, RequestOf, Running
<1>14. ASSUME NEW raw \in RawLists, SetAllowedOrigins(raw)
       PROVE  RequestOf(q)'
  <2>1. /\ lists'[q] = IF Running(q) THEN lists[q] \cup {allow'} ELSE lists[q]
        /\ UNCHANGED <<catalog, seen, reqVars>>
    BY <1>14 DEF SetAllowedOrigins, OwnerCall
  <2>2. QED
    BY <1>1, <2>1 DEF RequestOf, Running
<1>15. CASE Rewrite
  <2>1. /\ seen'[q] = IF Running(q) THEN seen[q] \cup {catalog'} ELSE seen[q]
        /\ UNCHANGED <<allow, lists, reqVars>>
    BY <1>15 DEF Rewrite, Replace, OwnerCall
  <2>2. QED
    BY <1>1, <2>1 DEF RequestOf, Running
<1>16. CASE SendNext \/ EndNotify \/ \E k \in Kinds : BeginNotify(k)
  BY <1>4, <1>16 DEF SendNext, EndNotify, BeginNotify
<1>17. CASE UNCHANGED vars
  BY <1>4, <1>17 DEF vars
<1> HIDE DEF Same
<1>18. QED
  BY <1>4, <1>5, <1>6, <1>7, <1>9, <1>10, <1>11, <1>12, <1>13, <1>14, <1>15, <1>16, <1>17, Rewrites
  DEF Next

-----------------------------------------------------------------------------
(* The invariant and what follows from it.                                 *)

THEOREM Invariance == Spec => []IInv
<1>1. Init => IInv
  <2> SUFFICES ASSUME Init PROVE IInv
    OBVIOUS
  <2>1. allow \in AllowLists
    BY ConstantsAssumption DEF ConstantsAssumption, Init, AllowLists, DefaultLocal
  <2>2. Registered(catalog)
    BY ItemsAre DEF Init, Registered, EntryWords
  <2>3. Typed
    BY <2>1, <2>2 DEF Init, Typed, Stages, Reqs
  <2>4. Served
    BY DEF Init, Served, RequestOf, Running
  <2>5. QED
    BY <2>3, <2>4 DEF IInv
<1>2. IInv /\ [Next]_vars => IInv'
  BY TypedStep, ServedStep DEF IInv
<1>3. QED
  BY <1>1, <1>2, PTL DEF Spec

\* The list that lets a request in decides the headers of its answer, and a list
\* in force refused what was refused, for any number of requests and of changes.
THEOREM OneListJudges == Spec => []JudgedByOneList
<1>1. IInv => JudgedByOneList
  BY DEF IInv, Served, RequestOf, JudgedByOneList
<1>2. QED
  BY <1>1, Invariance, PTL

\* Every event and every error is called for by one registry in force since the
\* request arrived, for any entries and any changes of them.
THEOREM AnswersWarranted == Spec => []AnswerWarranted
<1>1. IInv => AnswerWarranted
  BY DEF IInv, Served, RequestOf, AnswerWarranted
<1>2. QED
  BY <1>1, Invariance, PTL
=============================================================================
