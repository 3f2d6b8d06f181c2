SPECIFICATION Spec
CONSTANTS
    Handler = {h1, h2}
    Nobody = Nobody
    Kinds = {"login", "authorize", "change", "recover", "answer", "register", "exchange", "refresh", "environment"}
    MaxClients = 2
    MaxPending = 2
    MaxCodes = 1
    MaxGeneration = 1
    MaxIds = 5
SYMMETRY Symmetry
INVARIANTS TypeOK NoGrantOutlivesPassword NoLateCode SingleUse GrantedClientKept
PROPERTY NoLostChange
