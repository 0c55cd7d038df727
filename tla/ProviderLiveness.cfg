\* Two handlers that attach two shops to one application, again and again.
CONSTANTS
    Null = Null
    Attachers = {h1, h2}
    Apps = {a1}
    Shops = {s1, s2}
    Secrets = {x, y}
SPECIFICATION FairSpec
PROPERTIES EveryAttachIsAnswered
