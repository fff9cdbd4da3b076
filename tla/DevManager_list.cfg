SPECIFICATION Spec
CONSTANTS
 sd0 = sd0
 sd0_rec = sd0_rec
 virfat = virfat
 NoAddr = NoAddr
 Logo <- MCLogo
 Rec <- MCRec
 Addr = {a1, a2, a3}
 RecFolder = TRUE
 MaxStamp = 3
INVARIANTS TypeOK ListIsSound
PROPERTIES AnswersAgree
SYMMETRY Heap
