\* Programs attach in turn or at the same time, under names with and without a dot, at
\* any nice value, with process ids that come back or do not, and are killed anywhere.
CONSTANTS
    p1 = p1  p2 = p2  p3 = p3
    a = a  b = b  ya = ya  yb = yb  a1 = a1  ya1 = ya1  ax = ax  yax = yax
    Prog = {p1, p2, p3}
    Pid = {1, 2, 3}
    Name = {a, b, a1, ax}
    File = {a, b, ya, yb, a1, ya1, ax, yax}
    ReplyFile <- Replies
    Beyond <- Dots
    Killable = {p1, p2}
    Host <- AllHosts
SPECIFICATION Spec
INVARIANTS TypeOK UniqueName FilesKept
PROPERTY RefusedMeansTaken
CHECK_DEADLOCK FALSE
