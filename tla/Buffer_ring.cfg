\* Three-slot ring; one reader has a history of one item (a preloaded zero), the
\* other a sample delay of one; two tags under concurrent pruning, which five items
\* are needed for: a tag goes once offset + BufSize < last_min_items_read.
CONSTANTS
    r1 = r1
    r2 = r2
    Readers <- ReadersDef
    BufSize = 3
    Preload <- OnePreload
    Delay <- DelayOfOne
    Keys = {"k"}
    MaxItems = 5
    MaxTags = 2
SPECIFICATION Spec
INVARIANTS
    StreamKept
    TagsKept
PROPERTIES
    FifoSpec
CHECK_DEADLOCK FALSE
