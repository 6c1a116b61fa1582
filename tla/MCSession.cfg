\* Calls whose connections fail in every way.
SPECIFICATION Spec
CONSTANTS
  Configured = Configured
  Guest = Guest
  MaxConns = 4
INVARIANTS
  TypeOK
  NoOrphanSession
  NoUseAfterDestroy
  CleanCallReleases
