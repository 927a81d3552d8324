SPECIFICATION Spec
CONSTANTS
  s1 = s1
  s2 = s2
  Sessions = {s1}
  Paths = {"x", "y"}
  Contents = {"a", "b"}
  MemoryFiles <- MCMemory
  Policies <- MCPolicies
  MaxManifests = 2
  MaxCrashes = 1
  Faults = {"create", "cleanup", "load", "mount", "unmount", "dies", "remove", "store", "refresh"}
INVARIANT TreesAgree
PROPERTY FilesKept
