CONSTANTS
    serde = serde
    libc = libc
    prog = prog
    link = link
    copy = copy
    script = script
    id1 = id1
    None = None
    Version <- MCVersion
    Patches <- MCPatches
    Locks <- MCLocks
    Extra <- MCExtra
    File <- MCFile
    Elf <- MCElf
    BuildId <- MCBuildId
    Inode <- MCInode
SPECIFICATION Spec
INVARIANTS
    NoneUnpatched
    DebugInfoKept
PROPERTIES
    PinsKept
