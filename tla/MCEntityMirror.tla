--------------------------- MODULE MCEntityMirror ---------------------------
(* Instances of EntityMirror: a child device with a service, a nested child    *)
(* device and a sensor below it.                                               *)
EXTENDS EntityMirror

MCTopics == {"main", "child", "nested", "sensor", "service"}

Device(t, p) == [topic |-> t, type |-> "child-device", parent |-> p, id |-> None, twin |-> FALSE]
Service(t, p) == [topic |-> t, type |-> "service", parent |-> p, id |-> None, twin |-> FALSE]

MCDefaultParent ==
  [t \in MCTopics |-> IF t = "service" THEN "child" ELSE None]

\* Each entity has one parent, always given.
FixedParents ==
  {Device("child", "main"), Device("nested", "child"), Device("sensor", "nested"),
   [Device("child", "main") EXCEPT !.id = "x", !.twin = TRUE],
   [Service("service", "child") EXCEPT !.id = "x"]}

ASSUME FixedAssumption == OneParent

AllRequests == {"register", "clear", "health", "create", "delete", "patch"}
\* For the longer sequences of requests.
FewRequests == {"register", "clear", "health", "delete"} \X {"child", "nested", "service"}
=============================================================================
