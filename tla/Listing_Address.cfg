SPECIFICATION Spec
CONSTANTS
 Owners = {a1, a2, a3}
 Address = a1
 NoName = NoName
 FirstIndex = 1
 MaxRows = 4
 PageSize = 2
 Lists = {"submits", "submits of tx", "address submits", "address submits of tx", "rewards",
        "address rewards", "da submits", "da submits of tx", "da rewards", "stats", "miners"}
INVARIANTS AddressListed
CHECK_DEADLOCK FALSE
