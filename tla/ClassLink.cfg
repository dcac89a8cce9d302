CONSTANTS
    Obj = Obj  A = A  B = B  C = C  IntArr = IntArr  StrArr = StrArr
    Root = Root  Null = Null
    Classes <- MCClasses
    NoClass <- Null
    ObjectClass <- Obj
    Super <- MCSuper
    Kind <- MCKind
    Name <- MCName
    Decl <- MCDecl
    FieldStatic <- MCFieldStatic
SPECIFICATION MCSpec
INVARIANT TypeOK
INVARIANT VtableConsistent
 
INVARIANT FieldLayoutSound
INVARIANT ArrayElementNameCorrect
INVARIANT FTypeOK
INVARIANT FieldReleasedOnce
