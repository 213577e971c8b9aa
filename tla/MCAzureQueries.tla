--------------------------- MODULE MCAzureQueries ---------------------------
EXTENDS AzureQueries, TLC

\* Subscriptions of a topic and authorization rules of a topic, of which there must
\* be as many as the outputs name, the former listed with skip and top; one of the
\* rules of a namespace, of which there may be more; containers of a storage
\* account, of which there must be as many on the first page; and role
\* assignments, the first two of which share a scope.
MCListing == {"subscriptions", "topic rules", "namespace rule", "containers", "roles"}
MCExpected ==
  [subscriptions |-> {1, 2, 4}] @@ ("topic rules" :> {2, 3, 5}) @@ ("namespace rule" :> {3})
  @@ [containers |-> {1, 5}, roles |-> {2, 3}]
MCScopeOf == [i \in Item |->
  CASE i <= 2 -> "cluster" [] i = 3 -> "registry" [] i = 4 -> "vault" [] OTHER -> "storage"]
MCRoleOf == [i \in Item |-> IF i = 1 THEN "Reader" ELSE "Contributor"]
=============================================================================
