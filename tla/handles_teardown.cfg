\* lwIP's mailbox sizes come from lwipopts.h; a working stack uses sizes
\* above 0.
CONSTANTS
  Sizes = {2}
SPECIFICATION Spec
INVARIANT HandlesInStep
