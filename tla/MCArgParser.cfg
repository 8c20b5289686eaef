\* Two parses of one ArgParser with the options main registers, over
\* every command line of MCArgvs.  A parse ends in "returned" or "thrown"
\* and the second one is the last: the end of a run is not a deadlock.
CONSTANTS
    Argvs <- MCArgvs
    MaxParses = 2
    NoShort = NoShort
SPECIFICATION Spec
PROPERTY ParseImplementsCall
PROPERTY ParseTerminates
CHECK_DEADLOCK FALSE
