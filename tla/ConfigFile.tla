----------------------------- MODULE ConfigFile -----------------------------
(***************************************************************************)
(* The kubeconfig file format: in the program clusters, contexts and users *)
(* are maps by name, in the file they are lists of named entries.  Marshal *)
(* writes a map in whatever order the language walks it; Unmarshal assigns *)
(* the entries one after the other, so that of two with the same name the  *)
(* later one stays.                                                        *)
(***************************************************************************)
EXTENDS Naturals, FiniteSets

\* The maps and the lists of a file.
Sections == {"clusters", "contexts", "users"}

\* Mutant: the entry assigned first stays.
MapOfFirst(list) ==
  [n \in {list[i].name : i \in DOMAIN list} |->
     list[CHOOSE i \in DOMAIN list :
            /\ list[i].name = n
            /\ \A j \in DOMAIN list : list[j].name = n => i <= j].value]

\* The map after one assignment per entry, in the order of the list.
MapOf(list) ==
  [n \in {list[i].name : i \in DOMAIN list} |->
     list[CHOOSE i \in DOMAIN list :
            /\ list[i].name = n
            /\ \A j \in DOMAIN list : list[j].name = n => j <= i].value]

\* The lists a map may be written as: every name once, in any order.
ListsOf(map) ==
  LET size == Cardinality(DOMAIN map)
      orders == {o \in [1 .. size -> DOMAIN map] :
                   \A n \in DOMAIN map : \E i \in 1 .. size :
                     o[i] = n /\ \A j \in 1 .. size : o[j] = n => j = i}
  IN {[i \in 1 .. size |-> [name |-> o[i], value |-> map[o[i]]]] : o \in orders}

\* The files Marshal may write of a Config.  What Config says of its own
\* version and kind is not looked at.
Marshal(config) ==
  {[apiVersion |-> "v1", kind |-> "Config",
    preferences |-> config.preferences, currentContext |-> config.currentContext,
    lists |-> lists] :
     lists \in {l \in [Sections -> UNION {ListsOf(config.maps[s]) : s \in Sections}] :
                  \A s \in Sections : l[s] \in ListsOf(config.maps[s])}}

\* Nor at what the file says of its own.
Unmarshal(file) ==
  [apiVersion |-> "v1", kind |-> "Config",
   preferences |-> file.preferences, currentContext |-> file.currentContext,
   maps |-> [s \in Sections |-> MapOf(file.lists[s])]]

NewBareConfig ==
  [apiVersion |-> "v1", kind |-> "Config",
   preferences |-> {}, currentContext |-> "",
   maps |-> [s \in Sections |-> [n \in {} |-> n]]]

-----------------------------------------------------------------------------

\* What Marshal writes of a Config, Unmarshal reads back as that Config.
RoundTrip(config) == \A file \in Marshal(config) : Unmarshal(file) = config
=============================================================================
