--------------------------------- MODULE Tab ---------------------------------
(* One browser tab: what its pages name, and the cache they read through.  *)
CONSTANTS
  Slots,       \* bound on the requests under way at once: identities for them
  Nothing,     \* no answer yet, no error, no row
  Idle, Sent   \* the states of a fetch without an answer

ASSUME SentIsNotIdle == Idle # Sent
ASSUME NothingIsNoSlot == Nothing \notin Slots

RQ == INSTANCE ReactQuery
=============================================================================
