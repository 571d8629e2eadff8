SPECIFICATION CacheSpec

CONSTANTS
    Requests = {r1, r2, r3}
    Pages = {control, echo, other}
    Missing = {other}

PROPERTY
    WarmIsSafe
