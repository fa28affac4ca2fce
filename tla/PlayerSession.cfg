\* Three songs, every queue of at most three, every set of failing calls.
SPECIFICATION Spec
CONSTANTS
    Item = {a, b, c}
    NoItem = none
    Queues <- QueuesUpTo3
    Enough = 2
INVARIANTS
    TypeOK ResetIsComplete   
    
 
SYMMETRY Symmetry
