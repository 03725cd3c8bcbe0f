SPECIFICATION Spec
INVARIANTS
  SchemaFollowsVersion
  RunsFailOnUngroupedClassesOnly
  HeadServesTheCode
