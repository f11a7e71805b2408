CONSTANTS
    c1 = c1
    c2 = c2
    task = task
    check = check
    fragile = fragile
    x = x
    y = y
    k1 = k1
    k2 = k2
    key = key
    path = path
    None = None
    Cid <- MCCid
    Name <- MCName
    Value <- MCValue
    Kid <- MCKid
    Key <- MCKey
    Path <- MCPath
    Size <- MCSize
    RunPayload <- MCRunPayload
    Grant <- MCGrant
    Catalog <- MCCatalog
    Verdict <- MCVerdict
    MaxDirectives = 4
SPECIFICATION Spec
PROPERTY
    AppliedOncePerFingerprint
CHECK_DEADLOCK FALSE
