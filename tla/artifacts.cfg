SPECIFICATION FairSpec
CONSTANTS
  Upload = {u1, u2}
  Draft = {d1}
  Unwanted = {u1}
  Maint = {x1}
  Nobody = Nobody
  NoUpload = NoUpload
  Batch = 2
PROPERTY ExpiredUploadsLeave
INVARIANTS AttachmentsStay GoneLeavesNothing
