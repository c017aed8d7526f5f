SPECIFICATION Spec
CONSTANTS
    CAM = CAM
    Ann = Ann
    Bob = Bob
    UtxoId = {1, 2, 3}
    Address = {Ann, Bob}
    Asset = {CAM}
    OutputOf <- MCOutputOf
    Api = {client, another}
    Namespace = {url1, url2}
    Call = {c1, c2}
    Encoding = {"hex"}
    NoList = NoList
    Moment <- MCMoment
SYMMETRY MCSymmetry
CHECK_DEADLOCK FALSE
INVARIANT AnswerIsReturned
