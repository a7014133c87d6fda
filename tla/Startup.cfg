\* One start of the program on each configuration file; it may stop.
SPECIFICATION Spec
CONSTANTS
    Files <- MCFiles
    Layouts = {"plain", "wide"}
    MAX_LINE_LENGTH = 12
    Defaults <- MCDefaults
    Stale = {"x", "NUL"}
    Faults = {"read", "log", "daemonize", "chroot", "resolve", "bind", "drop", "SIGHUP", "SIGINT", "listen", "serve"}
    Resolve <- MCResolve
    Busy <- MCBusy
    Privileged <- MCPrivileged
    Directories <- MCDirectories
INVARIANTS TypeOK ServesAsConfigured StartsIfItCan ConfigurationMeant
CHECK_DEADLOCK FALSE
