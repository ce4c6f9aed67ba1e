------------------------------ MODULE MCOperator ------------------------------
(***************************************************************************)
(* Values for the constants of Operator.  Each .cfg picks its requests and *)
(* the events it allows.                                                   *)
(***************************************************************************)
EXTENDS Operator, TLC

CONSTANTS k1, k2, u1, u2, s1, admin, viewer, here, there, far,
          localhost

MCNames == {k1}
MCTwoNames == {k1, k2}
MCUsers == {u1}
MCTwoUsers == {u1, u2}
MCRoles == {admin, viewer}
MCServers == {here, there, far, localhost}

\* The names differ in nothing.
Symmetry == Permutations(MCTwoNames)

-----------------------------------------------------------------------------
(* What cluster-info holds.                                                 *)

InfoWith(clusters) ==
  [exists |-> TRUE, keyed |-> TRUE, parses |-> TRUE,
   file |-> [apiVersion |-> "v1", kind |-> "Config", preferences |-> {},
             currentContext |-> "",
             lists |-> [s \in Sections |-> IF s = "clusters" THEN clusters ELSE <<>>]]]

Entry(name, server) == [name |-> name, value |-> [server |-> server]]

NoInfo == [InfoWith(<<>>) EXCEPT !.exists = FALSE]
NoKeyInfo == [InfoWith(<<>>) EXCEPT !.keyed = FALSE]
NotYamlInfo == [InfoWith(<<>>) EXCEPT !.parses = FALSE]
NamedInfo == InfoWith(<<Entry("far", far)>>)
EmptyServerInfo == InfoWith(<<Entry("", None)>>)
TwiceInfo == InfoWith(<<Entry("", far), Entry("", here), Entry("far", far)>>)

NoInfos == {NoInfo}
AllInfos == {NoInfo, NoKeyInfo, NotYamlInfo, NamedInfo, EmptyServerInfo, TwiceInfo}

\* Configs of up to two clusters and one user each, for the file format.
Configs ==
  {[NewBareConfig EXCEPT !.maps.clusters = clusters, !.maps.users = users] :
     clusters \in UNION {[names -> MCServers] : names \in SUBSET {"", "far"}},
     users \in UNION {[names -> MCUsers] : names \in SUBSET {"operator"}}}

ASSUME ConfigsComeBack == \A config \in Configs : RoundTrip(config)

-----------------------------------------------------------------------------
(* What users ask for.                                                      *)

Request(user, auto) ==
  [username |-> user, existingCSR |-> None, autoApproveCSR |-> auto,
   signatureAlgorithm |-> "", roleRef |-> None, server |-> None]

AutoRequest == {Request(u1, TRUE)}
BothRequests == {Request(u1, auto) : auto \in BOOLEAN}
ExistingRequests == {[r EXCEPT !.existingCSR = s1] : r \in BothRequests}

\* With a secret of its own and the operator's approval, or with a prepared secret
\* and an admin's.
CoreRequests ==
  {Request(u1, TRUE), [Request(u1, FALSE) EXCEPT !.existingCSR = s1]}

\* With one of the algorithms that a user has to ask for.
PssRequest == {[Request(u1, TRUE) EXCEPT !.signatureAlgorithm = "SHA256WithRSAPSS"]}

\* An edit from one to the other changes everything that can be edited.
EditRequests ==
  {Request(u1, TRUE),
   [Request(u2, FALSE) EXCEPT !.roleRef = viewer, !.server = there]}

\* Kubeconfigs that nobody approves, with and without a server of their own.
ServerRequests ==
  {[Request(u1, FALSE) EXCEPT !.server = server] : server \in {None, there}}

\* Two Kubeconfigs for one user that want different roles.
RoleRequests == {[Request(u1, TRUE) EXCEPT !.roleRef = r] : r \in {None, viewer}}

-----------------------------------------------------------------------------
(* What may happen: as many events of each kind as the record says, and no  *)
(* others.                                                                  *)

Events(more) ==
  [i \in Kinds |-> IF i \in DOMAIN more THEN more[i] ELSE 0]

CoreLimit == Events([create |-> 1, decide |-> 1, fault |-> 1, crash |-> 1])
EditLimit == Events([create |-> 1, edit |-> 1, csrGone |-> 1, foreign |-> 1])
ServerLimit == Events([create |-> 1, edit |-> 1, fault |-> 1, info |-> 1])
TwinLimit == Events([create |-> 2])
StrangerLimit == Events([create |-> 2, delete |-> 1, foreign |-> 1])
RecreateLimit == Events([create |-> 2, delete |-> 1])
EventsLimit == Events([create |-> 1, csrGone |-> 1, secretGone |-> 1])
ResyncLimit == Events([create |-> 1, decide |-> 1, fault |-> 1, stale |-> 1])
DeleteLimit == Events([create |-> 1, delete |-> 1, crash |-> 1])
StaleLimit == Events([create |-> 1, stale |-> 1])
CreateLimit == Events([create |-> 1])

-----------------------------------------------------------------------------
\* Bounds on lag.  Where the properties are not about secrets, the cache has a secret
\* before anything else happens; or it does so once a stranger has made a CSR.
SecretsAreCached == secretCache # secret => secretCache' # secretCache
StrangersMeetNoLag == used["foreign"] # 0 => SecretsAreCached

\* A bound on events: a Kubeconfig and either a second one or a stranger's CSR.
AtMostTwoCome == used'["create"] + used'["foreign"] <= 2
=============================================================================
